---- MODULE Spec2Model ----
(***************************************************************************)
(* A model of the Orion optimization tool (src/tools/optimize.py): the     *)
(* line classifier with its three ordered rule tables, the binary size and *)
(* section analyzer, the hotspot density analyzer, the build-manifest      *)
(* check, the report synthesizer and the driver that sequences them.       *)
(*                                                                         *)
(* Text is a sequence of one-character strings, so that strip(), split(),  *)
(* int(_, 16), the substring test and the regular expressions of the rule  *)
(* tables are computed on the text itself.                                 *)
(***************************************************************************)
EXTENDS Integers, Sequences, FiniteSets, TLC

(***************************************************************************)
(* Characters                                                              *)
(***************************************************************************)
Digit == {"0", "1", "2", "3", "4", "5", "6", "7", "8", "9"}

LowerAF == {"a", "b", "c", "d", "e", "f"}

UpperAF == {"A", "B", "C", "D", "E", "F"}

Lower == LowerAF \cup {"g", "h", "i", "j", "k", "l", "m", "n", "o", "p", "q",
                       "r", "s", "t", "u", "v", "w", "x", "y", "z"}

Upper == UpperAF \cup {"G", "H", "I", "J", "K", "L", "M", "N", "O", "P", "Q",
                       "R", "S", "T", "U", "V", "W", "X", "Y", "Z"}

\* \w of the re module, on ASCII text
Word == Lower \cup Upper \cup Digit \cup {"_"}

\* \s of the re module and the characters str.strip() and str.split() drop
Space == {" ", "\t", "\n", "\r", "\f"}

(***************************************************************************)
(* str primitives                                                          *)
(***************************************************************************)
RECURSIVE LStrip(_)
LStrip(s) == IF s # <<>> /\ Head(s) \in Space THEN LStrip(Tail(s)) ELSE s

RECURSIVE RStrip(_)
RStrip(s) ==
    IF s # <<>> /\ s[Len(s)] \in Space THEN RStrip(SubSeq(s, 1, Len(s) - 1)) ELSE s

\* str.rstrip(): the text without its trailing whitespace only
StripRight(s) == RStrip(s)

\* str.strip(): the text without its leading and trailing whitespace
Strip(s) == RStrip(LStrip(s))

\* sub in s
Contains(s, sub) ==
    \E i \in 0..(Len(s) - Len(sub)) : SubSeq(s, i + 1, i + Len(sub)) = sub

\* the pieces of s between the occurrences of the character sep: s.split(sep)
RECURSIVE SplitOn(_, _)
SplitOn(s, sep) ==
    IF \A i \in 1..Len(s) : s[i] # sep
    THEN <<s>>
    ELSE LET k == CHOOSE i \in 1..Len(s) :
                      s[i] = sep /\ \A j \in 1..(i - 1) : s[j] # sep
         IN  <<SubSeq(s, 1, k - 1)>> \o SplitOn(SubSeq(s, k + 1, Len(s)), sep)

\* s.split(): the maximal runs of non-whitespace characters of s
RECURSIVE Fields(_)
Fields(s) ==
    LET t == LStrip(s)
    IN  IF t = <<>>
        THEN <<>>
        ELSE LET n == CHOOSE i \in 1..Len(t) :
                          /\ \A j \in 1..i : t[j] \notin Space
                          /\ (i = Len(t) \/ t[i + 1] \in Space)
             IN  <<SubSeq(t, 1, n)>> \o Fields(SubSeq(t, n + 1, Len(t)))

HexValue(c) ==
    CASE c \in Digit -> CHOOSE v \in 0..9 :
                            c = <<"0", "1", "2", "3", "4", "5", "6", "7", "8", "9">>[v + 1]
      [] c \in {"a", "A"} -> 10
      [] c \in {"b", "B"} -> 11
      [] c \in {"c", "C"} -> 12
      [] c \in {"d", "D"} -> 13
      [] c \in {"e", "E"} -> 14
      [] c \in {"f", "F"} -> 15

HexDigit == Digit \cup LowerAF \cup UpperAF

\* the digits of a literal: hex digits, single underscores only between digits
\* (after a base prefix one underscore may lead)
HexBodyOk(s, prefixed) ==
    /\ s # <<>>
    /\ \A i \in 1..Len(s) : s[i] \in HexDigit \cup {"_"}
    /\ s[Len(s)] # "_"
    /\ (s[1] = "_" => prefixed)
    /\ \A i \in 1..(Len(s) - 1) : ~(s[i] = "_" /\ s[i + 1] = "_")

RECURSIVE HexNumber(_, _)
HexNumber(s, acc) ==
    IF s = <<>> THEN acc
    ELSE IF Head(s) = "_" THEN HexNumber(Tail(s), acc)
    ELSE HexNumber(Tail(s), acc * 16 + HexValue(Head(s)))

\* int(s, 16): [ok |-> TRUE, value |-> n], or [ok |-> FALSE] for ValueError
ParseHex(s) ==
    LET t      == Strip(s)
        signed == t # <<>> /\ t[1] \in {"+", "-"}
        u      == IF signed THEN Tail(t) ELSE t
        pre    == Len(u) >= 2 /\ u[1] = "0" /\ u[2] \in {"x", "X"}
        body   == IF pre THEN SubSeq(u, 3, Len(u)) ELSE u
    IN  IF HexBodyOk(body, pre)
        THEN [ok |-> TRUE,
              value |-> IF signed /\ t[1] = "-" THEN 0 - HexNumber(body, 0)
                        ELSE HexNumber(body, 0)]
        ELSE [ok |-> FALSE, value |-> 0]

(***************************************************************************)
(* Regular expressions (the fragment of the re module the tool uses).      *)
(* An expression is a record; Ends(re, s, i) is the sequence of positions  *)
(* at which a match of re starting after the first i characters of s can   *)
(* end, in the order in which the backtracking matcher tries them.         *)
(***************************************************************************)
Chr(set) == [t |-> "chr", s |-> set]

NotChr(set) == [t |-> "notchr", s |-> set]

\* . matches any character except a newline
AnyChr == NotChr({"\n"})

Cat(rs) == [t |-> "cat", a |-> rs]

Alt(rs) == [t |-> "alt", a |-> rs]

Star(r) == [t |-> "star", r |-> r]

Plus(r) == Cat(<<r, Star(r)>>)

Lit(str) == Cat([i \in 1..Len(str) |-> Chr({str[i]})])

Bol == [t |-> "bol"]

Eol == [t |-> "eol"]

WordB == [t |-> "wordb"]

NotAhead(r) == [t |-> "notahead", r |-> r]

IsWordAt(s, i) == i >= 1 /\ i <= Len(s) /\ s[i] \in Word

IsChrClass(re) == re.t \in {"chr", "notchr"}

ChrMatches(re, c) == IF re.t = "chr" THEN c \in re.s ELSE c \notin re.s

\* the length of the longest run of characters of the class re after position i
RunLength(re, s, i) ==
    CHOOSE n \in 0..(Len(s) - i) :
        /\ \A k \in 1..n : ChrMatches(re, s[i + k])
        /\ (i + n < Len(s) => ~ChrMatches(re, s[i + n + 1]))

RECURSIVE Ends(_, _, _), EndsFromAll(_, _, _, _, _), CatEnds(_, _, _, _), AltEnds(_, _, _, _)
Ends(re, s, i) ==
    CASE IsChrClass(re) ->
            IF i < Len(s) /\ ChrMatches(re, s[i + 1]) THEN <<i + 1>> ELSE <<>>
      [] re.t = "cat" -> CatEnds(re.a, 1, s, <<i>>)
      [] re.t = "alt" -> AltEnds(re.a, 1, s, i)
      [] re.t = "star" ->
            \* greedy: the longest repetition first, the empty one last
            IF IsChrClass(re.r)
            THEN LET n == RunLength(re.r, s, i)
                 IN  [k \in 1..(n + 1) |-> i + n + 1 - k]
            ELSE LET more == SelectSeq(Ends(re.r, s, i), LAMBDA j : j > i)
                 IN  EndsFromAll(re, s, more, 1, Len(more)) \o <<i>>
      [] re.t = "bol" -> IF i = 0 THEN <<i>> ELSE <<>>
      [] re.t = "eol" ->
            IF i = Len(s) \/ (i = Len(s) - 1 /\ s[Len(s)] = "\n") THEN <<i>> ELSE <<>>
      [] re.t = "wordb" -> IF IsWordAt(s, i) # IsWordAt(s, i + 1) THEN <<i>> ELSE <<>>
      [] re.t = "notahead" -> IF Ends(re.r, s, i) = <<>> THEN <<i>> ELSE <<>>

\* the ends of re from each of the start positions starts[lo..hi], in order
EndsFromAll(re, s, starts, lo, hi) ==
    IF lo > hi THEN <<>>
    ELSE IF lo = hi THEN Ends(re, s, starts[lo])
    ELSE LET mid == (lo + hi) \div 2
         IN  EndsFromAll(re, s, starts, lo, mid) \o EndsFromAll(re, s, starts, mid + 1, hi)

CatEnds(rs, k, s, starts) ==
    IF k > Len(rs) THEN starts
    ELSE CatEnds(rs, k + 1, s, EndsFromAll(rs[k], s, starts, 1, Len(starts)))

AltEnds(rs, k, s, i) ==
    IF k > Len(rs) THEN <<>> ELSE Ends(rs[k], s, i) \o AltEnds(rs, k + 1, s, i)

\* re.search(pattern, s) is not None
re_search(re, s) == \E i \in 0..Len(s) : Ends(re, s, i) # <<>>

\* len(re.findall(pattern, s)): the leftmost match from position i on, then
\* the matches after its end
RECURSIVE CountFrom(_, _, _)
CountFrom(re, s, i) ==
    LET starts == {j \in i..Len(s) : Ends(re, s, j) # <<>>}
    IN  IF starts = {} THEN 0
        ELSE LET j == CHOOSE m \in starts : \A n \in starts : m <= n
                 e == Ends(re, s, j)[1]
             IN  1 + CountFrom(re, s, IF e > j THEN e ELSE j + 1)

re_findall_len(re, s) == CountFrom(re, s, 0)

\* f as an explicit table: the function is evaluated on its whole domain here,
\* once, and not again at each application
Tabulate(f) == f @@ <<>>

(***************************************************************************)
(* Pattern rule tables: ordered (pattern, suggestion) pairs per category,  *)
(* and the three counters of the hotspot analyzer.  The source regex is    *)
(* quoted above each translation.                                          *)
(***************************************************************************)
PerformancePatterns == <<
    \* \bmalloc\s*\(
    [pattern |-> Cat(<<WordB, Lit(<<"m", "a", "l", "l", "o", "c">>), Star(Chr(Space)),
                 Chr({"("})>>),
     suggestion |-> "Use kmalloc instead of malloc in kernel code"],
    \* \bsprintf\s*\(
    [pattern |-> Cat(<<WordB, Lit(<<"s", "p", "r", "i", "n", "t", "f">>), Star(Chr(Space)),
                 Chr({"("})>>),
     suggestion |-> "sprintf is unsafe, use snprintf"],
    \* \bstrcpy\s*\(
    [pattern |-> Cat(<<WordB, Lit(<<"s", "t", "r", "c", "p", "y">>), Star(Chr(Space)),
                 Chr({"("})>>),
     suggestion |-> "strcpy is unsafe, use strncpy"],
    \* \bstrcat\s*\(
    [pattern |-> Cat(<<WordB, Lit(<<"s", "t", "r", "c", "a", "t">>), Star(Chr(Space)),
                 Chr({"("})>>),
     suggestion |-> "strcat is unsafe, use strncat"],
    \* for\s*\([^;]*;[^;]*\+\+[^;]*;[^)]*\)\s*{[^}]*malloc
    [pattern |-> Cat(<<Lit(<<"f", "o", "r">>), Star(Chr(Space)), Chr({"("}),
                 Star(NotChr({";"})), Chr({";"}), Star(NotChr({";"})), Lit(<<"+", "+">>),
                 Star(NotChr({";"})), Chr({";"}), Star(NotChr({")"})), Chr({")"}),
                 Star(Chr(Space)), Chr({"{"}), Star(NotChr({"}"})), Lit(<<"m", "a", "l", "l",
                 "o", "c">>)>>),
     suggestion |-> "Memory allocation in loop - consider pre-allocation"],
    \* \bprintf\s*\(.*"\s*\\n"\s*\)
    [pattern |-> Cat(<<WordB, Lit(<<"p", "r", "i", "n", "t", "f">>), Star(Chr(Space)),
                 Chr({"("}), Star(AnyChr), Chr({"\""}), Star(Chr(Space)), Lit(<<"\\", "n",
                 "\"">>), Star(Chr(Space)), Chr({")"})>>),
     suggestion |-> "Use kinfo/kwarning/kerror instead of printf"],
    \* while\s*\(1\)
    [pattern |-> Cat(<<Lit(<<"w", "h", "i", "l", "e">>), Star(Chr(Space)), Lit(<<"(", "1",
                 ")">>)>>),
     suggestion |-> "Infinite loop detected - ensure proper exit conditions"],
    \* \bvolatile\s+(?!atomic)
    [pattern |-> Cat(<<WordB, Lit(<<"v", "o", "l", "a", "t", "i", "l", "e">>), Plus(Chr(Space)),
                 NotAhead(Lit(<<"a", "t", "o", "m", "i", "c">>))>>),
     suggestion |-> "Consider atomic operations instead of volatile for synchronization"]
>>

SecurityPatterns == <<
    \* \bgets\s*\(
    [pattern |-> Cat(<<WordB, Lit(<<"g", "e", "t", "s">>), Star(Chr(Space)), Chr({"("})>>),
     suggestion |-> "gets() is unsafe, use fgets()"],
    \* \bscanf\s*\([^,]*,\s*"%s"
    [pattern |-> Cat(<<WordB, Lit(<<"s", "c", "a", "n", "f">>), Star(Chr(Space)), Chr({"("}),
                 Star(NotChr({","})), Chr({","}), Star(Chr(Space)), Lit(<<"\"", "%", "s",
                 "\"">>)>>),
     suggestion |-> "Unbounded string input, use length-limited format"],
    \* char\s+\w+\[\d+\].*scanf
    [pattern |-> Cat(<<Lit(<<"c", "h", "a", "r">>), Plus(Chr(Space)), Plus(Chr(Word)),
                 Chr({"["}), Plus(Chr(Digit)), Chr({"]"}), Star(AnyChr), Lit(<<"s", "c", "a",
                 "n", "f">>)>>),
     suggestion |-> "Fixed buffer with scanf - potential overflow"],
    \* memcpy\s*\([^,]*,[^,]*,[^)]*\+
    [pattern |-> Cat(<<Lit(<<"m", "e", "m", "c", "p", "y">>), Star(Chr(Space)), Chr({"("}),
                 Star(NotChr({","})), Chr({","}), Star(NotChr({","})), Chr({","}),
                 Star(NotChr({")"})), Chr({"+"})>>),
     suggestion |-> "Potential integer overflow in memcpy size"],
    \* __asm__.*cli.*
    [pattern |-> Cat(<<Lit(<<"_", "_", "a", "s", "m", "_", "_">>), Star(AnyChr), Lit(<<"c", "l",
                 "i">>), Star(AnyChr)>>),
     suggestion |-> "Disabling interrupts - ensure proper re-enabling"],
    \* #define.*\(.*\).*\\\s*$
    [pattern |-> Cat(<<Lit(<<"#", "d", "e", "f", "i", "n", "e">>), Star(AnyChr), Chr({"("}),
                 Star(AnyChr), Chr({")"}), Star(AnyChr), Chr({"\\"}), Star(Chr(Space)), Eol>>),
     suggestion |-> "Multi-line macro without do-while"]
>>

QualityPatterns == <<
    \* ^[^/]*//.*TODO.*
    [pattern |-> Cat(<<Bol, Star(NotChr({"/"})), Lit(<<"/", "/">>), Star(AnyChr), Lit(<<"T",
                 "O", "D", "O">>), Star(AnyChr)>>),
     suggestion |-> "TODO comment found"],
    \* ^[^/]*//.*FIXME.*
    [pattern |-> Cat(<<Bol, Star(NotChr({"/"})), Lit(<<"/", "/">>), Star(AnyChr), Lit(<<"F",
                 "I", "X", "M", "E">>), Star(AnyChr)>>),
     suggestion |-> "FIXME comment found"],
    \* ^[^/]*//.*HACK.*
    [pattern |-> Cat(<<Bol, Star(NotChr({"/"})), Lit(<<"/", "/">>), Star(AnyChr), Lit(<<"H",
                 "A", "C", "K">>), Star(AnyChr)>>),
     suggestion |-> "HACK comment found"],
    \* ^\s*if\s*\([^)]*\)\s*;
    [pattern |-> Cat(<<Bol, Star(Chr(Space)), Lit(<<"i", "f">>), Star(Chr(Space)), Chr({"("}),
                 Star(NotChr({")"})), Chr({")"}), Star(Chr(Space)), Chr({";"})>>),
     suggestion |-> "Empty if statement"],
    \* ^\s*}\s*else\s*{[^}]*}$
    [pattern |-> Cat(<<Bol, Star(Chr(Space)), Chr({"}"}), Star(Chr(Space)), Lit(<<"e", "l", "s",
                 "e">>), Star(Chr(Space)), Chr({"{"}), Star(NotChr({"}"})), Chr({"}"}), Eol>>),
     suggestion |-> "Single-line else block could be simplified"],
    \* [^\w]0x[0-9a-fA-F]+[^\w]
    [pattern |-> Cat(<<NotChr(Word), Lit(<<"0", "x">>),
                 Plus(Chr(Digit \cup LowerAF \cup UpperAF)), NotChr(Word)>>),
     suggestion |-> "Magic number detected - consider named constant"]
>>

\* \b(for|while)\s*\(
LoopPattern == Cat(<<WordB, Alt(<<Lit(<<"f", "o", "r">>), Lit(<<"w", "h", "i", "l", "e">>)>>),
                 Star(Chr(Space)), Chr({"("})>>)

\* \b(kmalloc|malloc)\s*\(
MallocPattern == Cat(<<WordB, Alt(<<Lit(<<"k", "m", "a", "l", "l", "o", "c">>), Lit(<<"m", "a",
                 "l", "l", "o", "c">>)>>), Star(Chr(Space)), Chr({"("})>>)

\* \b(spin_lock|mutex_lock|lock)\s*\(
LockPattern == Cat(<<WordB, Alt(<<Lit(<<"s", "p", "i", "n", "_", "l", "o", "c", "k">>),
                 Lit(<<"m", "u", "t", "e", "x", "_", "l", "o", "c", "k">>), Lit(<<"l", "o", "c",
                 "k">>)>>), Star(Chr(Space)), Chr({"("})>>)

(***************************************************************************)
(* The project tree the tool runs on: source texts, build manifests, build *)
(* leftovers and the compiled kernel with its section dump.  A text is     *)
(* quoted above its character sequence.                                    *)
(***************************************************************************)
RECURSIVE Rep(_, _)
Rep(s, n) == IF n = 0 THEN <<>> ELSE s \o Rep(s, n - 1)

RECURSIVE JoinLines(_)
JoinLines(ls) ==
    IF ls = <<>> THEN <<>>
    ELSE IF Len(ls) = 1 THEN ls[1]
    ELSE ls[1] \o <<"\n">> \o JoinLines(Tail(ls))

\* p = malloc(n); strcpy(d, s);
heap_c_1 == <<"p", " ", "=", " ", "m", "a", "l", "l", "o", "c", "(", "n", ")", ";", " ", "s",
        "t", "r", "c", "p", "y", "(", "d", ",", " ", "s", ")", ";">>

\*     gets(buffer);
heap_c_2 == <<" ", " ", " ", " ", "g", "e", "t", "s", "(", "b", "u", "f", "f", "e", "r", ")",
        ";">>

\* x = 0x10; // TODO FIXME
heap_c_3 == <<"x", " ", "=", " ", "0", "x", "1", "0", ";", " ", "/", "/", " ", "T", "O", "D",
        "O", " ", "F", "I", "X", "M", "E">>

\* kmalloc(a);kmalloc(b);kmalloc(c);kmalloc(d);kmalloc(e);
heap_c_4 == <<"k", "m", "a", "l", "l", "o", "c", "(", "a", ")", ";", "k", "m", "a", "l", "l",
        "o", "c", "(", "b", ")", ";", "k", "m", "a", "l", "l", "o", "c", "(", "c", ")", ";",
        "k", "m", "a", "l", "l", "o", "c", "(", "d", ")", ";", "k", "m", "a", "l", "l", "o",
        "c", "(", "e", ")", ";">>

\* for(;;)
for_loop == <<"f", "o", "r", "(", ";", ";", ")">>

\* while (x) 
while_loop == <<"w", "h", "i", "l", "e", " ", "(", "x", ")", " ">>

\* kmalloc(1);
kmalloc_call == <<"k", "m", "a", "l", "l", "o", "c", "(", "1", ")", ";">>

\* malloc (2);
malloc_call == <<"m", "a", "l", "l", "o", "c", " ", "(", "2", ")", ";">>

\* lock(l);
lock_call == <<"l", "o", "c", "k", "(", "l", ")", ";">>

\* spin_lock(l);
spin_lock_call == <<"s", "p", "i", "n", "_", "l", "o", "c", "k", "(", "l", ")", ";">>

\* mutex_lock (l);
mutex_lock_call == <<"m", "u", "t", "e", "x", "_", "l", "o", "c", "k", " ", "(", "l", ")", ";">>

\* unlock(l);
unlock_call == <<"u", "n", "l", "o", "c", "k", "(", "l", ")", ";">>

\* while(1) {
ipc_c_1 == <<"w", "h", "i", "l", "e", "(", "1", ")", " ", "{">>

\* char b[8]; scanf(f, "%s", b);
main_c_1 == <<"c", "h", "a", "r", " ", "b", "[", "8", "]", ";", " ", "s", "c", "a", "n", "f",
        "(", "f", ",", " ", "\"", "%", "s", "\"", ",", " ", "b", ")", ";">>

\* volatile int v; // HACK, followed by a tab
main_c_2 == <<"v", "o", "l", "a", "t", "i", "l", "e", " ", "i", "n", "t", " ", "v", ";", " ",
        "/", "/", " ", "H", "A", "C", "K", "\t">>

\* [package]
cargo_1 == <<"[", "p", "a", "c", "k", "a", "g", "e", "]">>

\* [profile.release]
cargo_2 == <<"[", "p", "r", "o", "f", "i", "l", "e", ".", "r", "e", "l", "e", "a", "s", "e",
        "]">>

\* panic = "abort"
cargo_3 == <<"p", "a", "n", "i", "c", " ", "=", " ", "\"", "a", "b", "o", "r", "t", "\"">>

\* [profile.release]
marker_release == <<"[", "p", "r", "o", "f", "i", "l", "e", ".", "r", "e", "l", "e", "a", "s",
        "e", "]">>

\* panic = "abort"
marker_abort == <<"p", "a", "n", "i", "c", " ", "=", " ", "\"", "a", "b", "o", "r", "t", "\"">>

\* CONTENTS
marker_contents == <<"C", "O", "N", "T", "E", "N", "T", "S">>

\* TODO
marker_todo == <<"T", "O", "D", "O">>

\* FIXME
marker_fixme == <<"F", "I", "X", "M", "E">>

\* Idx Name Size VMA LMA File off Algn
dump_header == <<"I", "d", "x", " ", "N", "a", "m", "e", " ", "S", "i", "z", "e", " ", "V", "M",
        "A", " ", "L", "M", "A", " ", "F", "i", "l", "e", " ", "o", "f", "f", " ", "A", "l",
        "g", "n">>

\*   0 .text 00200000 00100000 CONTENTS, ALLOC, LOAD, CODE
dump_text == <<" ", " ", "0", " ", ".", "t", "e", "x", "t", " ", "0", "0", "2", "0", "0", "0",
        "0", "0", " ", "0", "0", "1", "0", "0", "0", "0", "0", " ", "C", "O", "N", "T", "E",
        "N", "T", "S", ",", " ", "A", "L", "L", "O", "C", ",", " ", "L", "O", "A", "D", ",",
        " ", "C", "O", "D", "E">>

\*   1 .data 0020zz00 00300000 CONTENTS, ALLOC, LOAD, DATA
dump_bad == <<" ", " ", "1", " ", ".", "d", "a", "t", "a", " ", "0", "0", "2", "0", "z", "z",
        "0", "0", " ", "0", "0", "3", "0", "0", "0", "0", "0", " ", "C", "O", "N", "T", "E",
        "N", "T", "S", ",", " ", "A", "L", "L", "O", "C", ",", " ", "L", "O", "A", "D", ",",
        " ", "D", "A", "T", "A">>

\*   2 .rodata 0x100001 00500000 CONTENTS, READONLY
dump_rodata == <<" ", " ", "2", " ", ".", "r", "o", "d", "a", "t", "a", " ", "0", "x", "1", "0",
        "0", "0", "0", "1", " ", "0", "0", "5", "0", "0", "0", "0", "0", " ", "C", "O", "N",
        "T", "E", "N", "T", "S", ",", " ", "R", "E", "A", "D", "O", "N", "L", "Y">>

\*   3 .bss 00100000 00700000 CONTENTS
dump_bss == <<" ", " ", "3", " ", ".", "b", "s", "s", " ", "0", "0", "1", "0", "0", "0", "0",
        "0", " ", "0", "0", "7", "0", "0", "0", "0", "0", " ", "C", "O", "N", "T", "E", "N",
        "T", "S">>

\*   CONTENTS, ALLOC
dump_short == <<" ", " ", "C", "O", "N", "T", "E", "N", "T", "S", ",", " ", "A", "L", "L", "O",
        "C">>

\*                   CONTENTS, ALLOC, LOAD, READONLY, CODE
dump_flags == <<" ", " ", " ", " ", " ", " ", " ", " ", " ", " ", " ", " ", " ", " ", " ", " ",
        " ", " ", "C", "O", "N", "T", "E", "N", "T", "S", ",", " ", "A", "L", "L", "O", "C",
        ",", " ", "L", "O", "A", "D", ",", " ", "R", "E", "A", "D", "O", "N", "L", "Y", ",",
        " ", "C", "O", "D", "E">>

\*   4 .debug 00300000 00900000 READONLY, DEBUGGING
dump_noflags == <<" ", " ", "4", " ", ".", "d", "e", "b", "u", "g", " ", "0", "0", "3", "0",
        "0", "0", "0", "0", " ", "0", "0", "9", "0", "0", "0", "0", "0", " ", "R", "E", "A",
        "D", "O", "N", "L", "Y", ",", " ", "D", "E", "B", "U", "G", "G", "I", "N", "G">>

\*   0 .text         00200000  0000000000100000  0000000000100000  00001000  2**4
dump_objdump_text == <<" ", " ", "0", " ", ".", "t", "e", "x", "t", " ", " ", " ", " ", " ",
        " ", " ", " ", " ", "0", "0", "2", "0", "0", "0", "0", "0", " ", " ", "0", "0", "0",
        "0", "0", "0", "0", "0", "0", "0", "1", "0", "0", "0", "0", "0", " ", " ", "0", "0",
        "0", "0", "0", "0", "0", "0", "0", "0", "1", "0", "0", "0", "0", "0", " ", " ", "0",
        "0", "0", "0", "1", "0", "0", "0", " ", " ", "2", "*", "*", "4">>

\* build/kernel/orion-kernel.elf is looked up on its own (optimize.py:182)
NoKernel == [exists |-> FALSE, size |-> 0, dump_ok |-> FALSE, stdout |-> <<>>]

Kernels == {
    NoKernel,
    \* exactly 10 MiB; the dump command fails
    [exists |-> TRUE, size |-> 10485760, dump_ok |-> FALSE, stdout |-> <<>>],
    \* one byte above 10 MiB; the dump command fails
    [exists |-> TRUE, size |-> 10485761, dump_ok |-> FALSE, stdout |-> <<>>],
    \* one byte above 10 MiB; well-formed and malformed section lines mixed
    [exists |-> TRUE, size |-> 10485761, dump_ok |-> TRUE,
     stdout |-> JoinLines(<<dump_header, dump_bad, dump_text, dump_short, dump_bss,
                            dump_rodata, dump_noflags, dump_text, dump_rodata, dump_text,
                            <<>>>>)],
    \* small kernel; one well-formed 2 MiB section and one malformed line
    [exists |-> TRUE, size |-> 4096, dump_ok |-> TRUE,
     stdout |-> JoinLines(<<dump_text, dump_bad>>)],
    \* small kernel; sizes and flags on separate lines, as objdump -h prints them
    [exists |-> TRUE, size |-> 4096, dump_ok |-> TRUE,
     stdout |-> JoinLines(<<dump_header, dump_objdump_text, dump_flags, <<>>>>)]
}

\* the files that may exist below the project root; text is what open().read()
\* returns, readable is FALSE where open() or the utf-8 decoding raises
Files == [
    kernel_mm_heap_c |->
        [path |-> "kernel/mm/heap.c", name |-> "heap.c", readable |-> TRUE,
         text |-> JoinLines(<<heap_c_1, heap_c_2, heap_c_3, heap_c_4, <<>>>>)],
    kernel_core_scheduler_c |->
        [path |-> "kernel/core/scheduler.c", name |-> "scheduler.c", readable |-> TRUE,
         text |-> JoinLines(<<Rep(for_loop, 6) \o Rep(while_loop, 5),
                              Rep(kmalloc_call, 5) \o malloc_call,
                              Rep(lock_call, 8) \o Rep(spin_lock_call, 4)
                                  \o Rep(mutex_lock_call, 4) \o unlock_call>>)],
    kernel_core_ipc_c |->
        [path |-> "kernel/core/ipc.c", name |-> "ipc.c", readable |-> TRUE,
         text |-> JoinLines(<<ipc_c_1 \o Rep(for_loop, 9),
                              Rep(malloc_call, 5),
                              Rep(lock_call, 15) \o unlock_call>>)],
    kernel_core_syscalls_c |->
        [path |-> "kernel/core/syscalls.c", name |-> "syscalls.c", readable |-> FALSE,
         text |-> <<>>],
    kernel_drivers_tty_c |->
        [path |-> "kernel/drivers/tty.c", name |-> "tty.c", readable |-> TRUE,
         text |-> JoinLines([i \in 1..42 |->
                                IF i = 42 THEN heap_c_2
                                ELSE IF i <= 11 THEN ipc_c_1
                                ELSE <<>>])],
    bootloader_main_c |->
        [path |-> "bootloader/main.c", name |-> "main.c", readable |-> TRUE,
         text |-> JoinLines(<<main_c_1, main_c_2>>)],
    kernel_mm_heap_o |->
        [path |-> "kernel/mm/heap.o", name |-> "heap.o", readable |-> FALSE,
         text |-> <<>>],
    cargo_toml |->
        [path |-> "Cargo.toml", name |-> "Cargo.toml", readable |-> TRUE,
         text |-> JoinLines(<<cargo_1, <<>>>>)],
    drivers_cargo_toml |->
        [path |-> "drivers/Cargo.toml", name |-> "Cargo.toml", readable |-> TRUE,
         text |-> JoinLines(<<cargo_1, cargo_2, cargo_3, <<>>>>)],
    kernel_cargo_toml |->
        [path |-> "kernel/Cargo.toml", name |-> "Cargo.toml", readable |-> FALSE,
         text |-> <<>>]
]

FileIds == DOMAIN Files

\* Path.glob: the files of the tree, in directory order, that a pattern selects
Glob == [
    kernel_sources     |-> {"kernel_mm_heap_c", "kernel_core_scheduler_c", "kernel_core_ipc_c",
                            "kernel_core_syscalls_c", "kernel_drivers_tty_c"},
    bootloader_sources |-> {"bootloader_main_c"},
    cargo_toml         |-> {"cargo_toml", "drivers_cargo_toml", "kernel_cargo_toml"},
    cleanup            |-> {"kernel_mm_heap_o"},
    hotspot_mm         |-> {"kernel_mm_heap_c", "kernel_mm_heap_o"},
    hotspot_scheduler  |-> {"kernel_core_scheduler_c"},
    hotspot_syscalls   |-> {"kernel_core_syscalls_c"},
    hotspot_ipc        |-> {"kernel_core_ipc_c"}
]

glob(tree, pattern) == SelectSeq(tree, LAMBDA f : f \in Glob[pattern])

(***************************************************************************)
(* The project tree as src/tools/test.py sees it                           *)
(***************************************************************************)
BuildTargets == <<"clean", "bootloader", "kernel", "all">>

\* test_kernel_components: required_symbols
required_symbols ==
    <<"kernel_main", "scheduler_init", "vmm_init", "pmm_init", "syscalls_init", "security_init">>

\* test_security_features: security_symbols
security_symbols ==
    <<"capabilities_init", "security_init", "cap_create", "cap_check_rights",
      "security_check_wx_violation", "security_init_kaslr", "get_secure_random">>

\* test_security_features: security_files, by file name
security_files == <<"capabilities.c", "vmm.c", "cpu.c">>

\* test_security_features: the names of security_checks
security_checks == <<"W^X check", "KASLR support", "Capability check", "Audit logging">>

\* test_driver_framework: the driver categories
driver_categories == <<"block", "net", "gpu", "usb">>

\* test_code_quality: required_files
required_files ==
    <<"README.md", "orion-build.sh", "kernel/CMakeLists.txt", "bootloader/Makefile",
      "lib/orion-driver/Cargo.toml">>

Range(s) == {s[i] : i \in 1..Len(s)}

\* a project in which every test of every suite passes
Deployed == [
    build_ok         |-> Range(BuildTargets),       \* the targets orion-build.sh builds
    kernel_exists    |-> TRUE,                      \* build/kernel/orion-kernel.elf
    kernel_size      |-> 4096,
    objdump_ok       |-> TRUE,                      \* objdump -t exits with 0
    symtab           |-> Range(required_symbols) \cup Range(security_symbols),
    framework_dir    |-> TRUE,                      \* lib/orion-driver
    cargo_test_ok    |-> TRUE,
    cargo_check_ok   |-> TRUE,
    driver_dirs      |-> Range(driver_categories),  \* the directories below drivers/
    drivers_ok       |-> Range(driver_categories),  \* those cargo check accepts
    security_present |-> Range(security_files),     \* the security files that exist
    security_readable|-> Range(security_files),     \* those open() and read() accept
    security_found   |-> [f \in Range(security_files) |-> Range(security_checks)],
    qemu_found       |-> TRUE,                      \* which qemu-system-x86_64
    iso_exists       |-> TRUE,                      \* build/orion-os.iso
    qemu_starts      |-> TRUE,
    sources_readable |-> TRUE,                      \* every *.[ch] below source_dirs opens
    todo_count       |-> 3,
    fixme_count      |-> 0,
    required_present |-> Range(required_files)
]

\* a checkout in which nothing was built and no tool is installed
Bare == [
    build_ok         |-> {},
    kernel_exists    |-> FALSE,
    kernel_size      |-> 0,
    objdump_ok       |-> FALSE,
    symtab           |-> {},
    framework_dir    |-> FALSE,
    cargo_test_ok    |-> FALSE,
    cargo_check_ok   |-> FALSE,
    driver_dirs      |-> {},
    drivers_ok       |-> {},
    security_present |-> {},
    security_readable|-> {},
    security_found   |-> [f \in Range(security_files) |-> {}],
    qemu_found       |-> FALSE,
    iso_exists       |-> FALSE,
    qemu_starts      |-> FALSE,
    sources_readable |-> TRUE,
    todo_count       |-> 0,
    fixme_count      |-> 0,
    required_present |-> {}
]

Projects == {
    Deployed,
    Bare,
    \* capabilities.c exists and cannot be read
    [Deployed EXCEPT !.security_readable = {"vmm.c", "cpu.c"}],
    \* a source file below kernel/ cannot be read
    [Deployed EXCEPT !.sources_readable = FALSE],
    \* neither can be read, and the kernel build fails
    [Deployed EXCEPT !.security_readable = {}, !.sources_readable = FALSE,
                     !.build_ok = {"clean", "bootloader"}],
    \* a FIXME is left and vmm.c has no audit logging
    [Deployed EXCEPT !.fixme_count = 1,
                     !.security_found = [@ EXCEPT !["vmm.c"] = @ \ {"Audit logging"}]],
    \* no driver framework and no drivers; only cpu.c of the security files, no kernel
    [Deployed EXCEPT !.framework_dir = FALSE, !.driver_dirs = {}, !.drivers_ok = {},
                     !.kernel_exists = FALSE, !.security_present = {"cpu.c"}],
    \* a large kernel whose symbol table lacks security_init but holds
    \* security_init_kaslr; no ISO; the net driver does not compile
    [Deployed EXCEPT !.kernel_size = 10485760, !.symtab = @ \ {"security_init", "pmm_init"},
                     !.iso_exists = FALSE, !.drivers_ok = @ \ {"net"},
                     !.todo_count = 10, !.required_present = @ \ {"README.md"}],
    \* objdump fails, QEMU does not start, no security file exists
    [Deployed EXCEPT !.objdump_ok = FALSE, !.qemu_starts = FALSE, !.security_present = {},
                     !.cargo_test_ok = FALSE]
}

(***************************************************************************)
(* Bounds of the model                                                     *)
(***************************************************************************)
\* at most this many files exist below the project root
MaxFiles == 2

\* the same command line is run at most this many times
MaxScans == 2

(***************************************************************************)
(* State                                                                   *)
(***************************************************************************)
VARIABLES
    tree,        \* the files below the project root, in directory order
    kernel,      \* the compiled kernel, an element of Kernels
    action,      \* --action of this run, "none" before the arguments are parsed
    pc,          \* the step main() or run_optimization() is at
    plan,        \* the steps still to run after pc
    report,      \* OrionOptimizer.report
    files,       \* the list the running loop iterates over
    file_idx,    \* its position in files
    line_num,    \* inside a source file: the number of the next line, else 0
    warnings,    \* the files named in WARNING log lines, in order
    cleaned,     \* cleaned_count of the last cleanup_project
    output,      \* what generate_optimization_report printed
    scans,       \* how many runs were started
    prev,        \* the previous run of this command line: its tree and its report
    project,     \* test.py: what the test runner finds below its project root
    suite_arg,   \* test.py: --suite of this run, "none" before the arguments are parsed
    test_pc,     \* test.py: the step main() or run_all_tests() is at
    func_idx,    \* test.py: the position of run_all_tests in test_functions
    test_results,\* OrionTester.test_results
    errors,      \* test.py: the functions named in ERROR log lines, in order
    summary,     \* test.py: what generate_report printed
    success,     \* test.py: the value main() got back, "none" before
    exit_code    \* test.py: the exit status of the process, -1 while it runs

\* the state of src/tools/test.py
tester_vars == <<project, suite_arg, test_pc, func_idx, test_results, errors, summary,
                 success, exit_code>>

\* the state of src/tools/optimize.py
optimizer_vars == <<tree, kernel, action, pc, plan, report, files, file_idx, line_num,
                    warnings, cleaned, output, scans, prev>>

vars == <<tree, kernel, action, pc, plan, report, files, file_idx, line_num, warnings,
          cleaned, output, scans, prev, project, suite_arg, test_pc, func_idx,
          test_results, errors, summary, success, exit_code>>

\* OptimizationReport.__init__; metrics is a set of <<key, value>> pairs
OptimizationReport ==
    [code_issues |-> <<>>, performance_issues |-> <<>>, security_issues |-> <<>>,
     suggestions |-> <<>>, metrics |-> {}]

NoOutput ==
    [printed |-> FALSE, performance_shown |-> <<>>, quality |-> <<>>, by_category |-> <<>>,
     suggestions_shown |-> <<>>, total_issues |-> 0, verdict |-> "none"]

NoPrev == [known |-> FALSE, tree |-> <<>>, report |-> OptimizationReport]

\* every order in which at most MaxFiles distinct files can be listed
Trees ==
    UNION {{t \in [1..n -> FileIds] : \A i, j \in 1..n : i # j => t[i] # t[j]} :
           n \in 0..MaxFiles}

\* what generate_report printed, before it ran
NoSummary ==
    [suites |-> <<>>, total_tests |-> -1, total_passed |-> -1, failed |-> -1,
     success_rate |-> -1, banner |-> "none"]

\* test.py is not running
TesterIdle ==
    /\ project = Deployed
    /\ suite_arg = "none"
    /\ test_pc = "start"
    /\ func_idx = 0
    /\ test_results = <<>>
    /\ errors = <<>>
    /\ summary = NoSummary
    /\ success = FALSE
    /\ exit_code = -1

\* optimize.py is not running
OptimizerIdle ==
    /\ tree = <<>>
    /\ kernel = [exists |-> FALSE, size |-> 0, dump_ok |-> FALSE, stdout |-> <<>>]
    /\ action = "none"
    /\ pc = "start"
    /\ plan = <<>>
    /\ report = OptimizationReport
    /\ files = <<>>
    /\ file_idx = 0
    /\ line_num = 0
    /\ warnings = <<>>
    /\ cleaned = 0
    /\ output = NoOutput
    /\ scans = 1
    /\ prev = NoPrev

Init ==
    /\ tree \in Trees
    /\ kernel \in Kernels
    /\ action = "none"
    /\ pc = "start"
    /\ plan = <<>>
    /\ report = OptimizationReport
    /\ files = <<>>
    /\ file_idx = 0
    /\ line_num = 0
    /\ warnings = <<>>
    /\ cleaned = 0
    /\ output = NoOutput
    /\ scans = 1
    /\ prev = NoPrev
    /\ TesterIdle

(***************************************************************************)
(* Line classifier                                                         *)
(***************************************************************************)
Patterns ==
    [performance |-> PerformancePatterns, security |-> SecurityPatterns,
     quality |-> QualityPatterns]

\* the lines of a text: content.split('\n')
FileLines == Tabulate([f \in FileIds |-> SplitOn(Files[f].text, "\n")])

CleanLines == UNION {{Strip(FileLines[f][i]) : i \in 1..Len(FileLines[f])} : f \in FileIds}

\* re.search of every rule on every stripped line of the tree, computed once
SearchResult ==
    Tabulate([c \in DOMAIN Patterns |->
        Tabulate([s \in CleanLines |->
            Tabulate([k \in 1..Len(Patterns[c]) |->
                re_search(Patterns[c][k].pattern, s)])])])

\* a finding numbered from 0: enumerate(lines) without its start
FindingFromZero(category, k, file_path, num, line_clean, severity) ==
    [file |-> Files[file_path].path, line |-> num - 1, issue |-> line_clean,
     suggestion |-> Patterns[category][k].suggestion, severity |-> severity]

\* the dict a check appends for rule k of its table
Finding(category, k, file_path, num, line_clean, severity) ==
    [file |-> Files[file_path].path, line |-> num, issue |-> line_clean,
     suggestion |-> Patterns[category][k].suggestion, severity |-> severity]

\* a classifier that puts the newest finding first
RECURSIVE ScanRulesNewestFirst(_, _, _, _, _, _, _)
ScanRulesNewestFirst(issues, category, k, file_path, num, line_clean, severity) ==
    IF k > Len(Patterns[category]) THEN issues
    ELSE ScanRulesNewestFirst(
            IF SearchResult[category][line_clean][k]
            THEN <<Finding(category, k, file_path, num, line_clean, severity)>> \o issues
            ELSE issues,
            category, k + 1, file_path, num, line_clean, severity)

\* a classifier that leaves the rule loop at the first match
RECURSIVE ScanRulesFirstMatch(_, _, _, _, _, _, _)
ScanRulesFirstMatch(issues, category, k, file_path, num, line_clean, severity) ==
    IF k > Len(Patterns[category]) THEN issues
    ELSE IF SearchResult[category][line_clean][k]
    THEN Append(issues, Finding(category, k, file_path, num, line_clean, severity))
    ELSE ScanRulesFirstMatch(issues, category, k + 1, file_path, num, line_clean, severity)

\* for pattern, suggestion in patterns: if re.search(pattern, line_clean): append
RECURSIVE ScanRules(_, _, _, _, _, _, _)
ScanRules(issues, category, k, file_path, num, line_clean, severity) ==
    IF k > Len(Patterns[category]) THEN issues
    ELSE ScanRules(
            IF SearchResult[category][line_clean][k]
            THEN Append(issues, Finding(category, k, file_path, num, line_clean, severity))
            ELSE issues,
            category, k + 1, file_path, num, line_clean, severity)

check_performance_patterns(issues, file_path, num, line) ==
    ScanRules(issues, "performance", 1, file_path, num, Strip(line), "medium")

\* the security check with the severity of the performance check
check_security_patterns_medium(issues, file_path, num, line) ==
    ScanRules(issues, "security", 1, file_path, num, Strip(line), "medium")

check_security_patterns(issues, file_path, num, line) ==
    ScanRules(issues, "security", 1, file_path, num, Strip(line), "high")

check_quality_patterns(issues, file_path, num, line) ==
    ScanRules(issues, "quality", 1, file_path, num, Strip(line), "low")

(***************************************************************************)
(* Driver                                                                  *)
(***************************************************************************)
Actions == {"cleanup", "analyze", "optimize", "all"}

\* the calls main() makes for each --action, run_optimization inlined
Steps(a) ==
    CASE a = "cleanup" -> <<"cleanup">>
      [] a = "analyze" -> <<"quality", "binary", "hotspots", "report">>
      [] a = "optimize" -> <<"rust">>
      [] a = "all" -> <<"cleanup", "quality", "binary", "hotspots", "rust", "report",
                        "completed">>

\* return from the current call: on to the next one, or the process exits
Return ==
    /\ pc' = IF plan = <<>> THEN "done" ELSE Head(plan)
    /\ plan' = IF plan = <<>> THEN <<>> ELSE Tail(plan)
    /\ files' = <<>>
    /\ file_idx' = 0
    /\ line_num' = 0

Main(a) ==
    /\ pc = "start"
    /\ action' = a
    /\ pc' = Head(Steps(a))
    /\ plan' = Tail(Steps(a))
    /\ UNCHANGED <<tester_vars, tree, kernel, report, files, file_idx, line_num, warnings, cleaned,
                   output, scans, prev>>

\* cleanup_project: every build leftover that is a file is unlinked and counted;
\* an unlink that raises is logged as a warning and the file stays
CleanupProject ==
    /\ pc = "cleanup"
    /\ \E kept \in SUBSET {tree[i] : i \in 1..Len(tree)} :
          /\ kept \subseteq Glob.cleanup
          /\ tree' = SelectSeq(tree, LAMBDA f : f \notin Glob.cleanup \/ f \in kept)
          /\ cleaned' = Len(glob(tree, "cleanup")) - Cardinality(kept)
          /\ warnings' = warnings \o SelectSeq(tree, LAMBDA f : f \in kept)
    /\ Return
    /\ UNCHANGED <<tester_vars, kernel, action, report, output, scans, prev>>

(***************************************************************************)
(* analyze_code_quality                                                    *)
(***************************************************************************)
\* the position after file number i of the list fs is finished
NextFile(fs, i) ==
    IF i < Len(fs)
    THEN /\ pc' = pc
         /\ plan' = plan
         /\ files' = fs
         /\ file_idx' = i + 1
         /\ line_num' = 0
    ELSE Return

\* an analysis whose second pattern selects the kernel sources once more
AnalyzeCodeQualityOverlappingGlobs ==
    /\ pc = "quality"
    /\ LET c_files == glob(tree, "kernel_sources")
                          \o SelectSeq(tree, LAMBDA f : f \in Glob.kernel_sources
                                                         \/ f \in Glob.bootloader_sources)
       IN  IF c_files = <<>>
           THEN Return
           ELSE /\ pc' = "quality_loop"
                /\ plan' = plan
                /\ files' = c_files
                /\ file_idx' = 1
                /\ line_num' = 0
    /\ UNCHANGED <<tester_vars, tree, kernel, action, report, warnings, cleaned, output, scans, prev>>

\* an analysis that lists the bootloader sources ahead of the kernel sources
AnalyzeCodeQualityBootloaderFirst ==
    /\ pc = "quality"
    /\ LET c_files == glob(tree, "bootloader_sources") \o glob(tree, "kernel_sources")
       IN  IF c_files = <<>>
           THEN Return
           ELSE /\ pc' = "quality_loop"
                /\ plan' = plan
                /\ files' = c_files
                /\ file_idx' = 1
                /\ line_num' = 0
    /\ UNCHANGED <<tester_vars, tree, kernel, action, report, warnings, cleaned, output, scans, prev>>

\* c_files: the kernel sources, then the bootloader sources
AnalyzeCodeQuality ==
    /\ pc = "quality"
    /\ LET c_files == glob(tree, "kernel_sources") \o glob(tree, "bootloader_sources")
       IN  IF c_files = <<>>
           THEN Return
           ELSE /\ pc' = "quality_loop"
                /\ plan' = plan
                /\ files' = c_files
                /\ file_idx' = 1
                /\ line_num' = 0
    /\ UNCHANGED <<tester_vars, tree, kernel, action, report, warnings, cleaned, output, scans, prev>>

\* open(file_path) and f.read() succeed: the lines are classified from line 1
OpenFile ==
    /\ pc = "quality_loop"
    /\ line_num = 0
    /\ Files[files[file_idx]].readable
    /\ line_num' = 1
    /\ UNCHANGED <<tester_vars, tree, kernel, action, pc, plan, report, files, file_idx, warnings,
                   cleaned, output, scans, prev>>

\* the handler around the whole loop: the first unreadable file ends the analysis
OpenFailsEndsLoop ==
    /\ pc = "quality_loop"
    /\ line_num = 0
    /\ ~Files[files[file_idx]].readable
    /\ warnings' = Append(warnings, files[file_idx])
    /\ Return
    /\ UNCHANGED <<tester_vars, tree, kernel, action, report, cleaned, output, scans, prev>>

\* open() or f.read() raises: the handler logs a warning, the loop goes on
OpenFails ==
    /\ pc = "quality_loop"
    /\ line_num = 0
    /\ ~Files[files[file_idx]].readable
    /\ warnings' = Append(warnings, files[file_idx])
    /\ NextFile(files, file_idx)
    /\ UNCHANGED <<tester_vars, tree, kernel, action, report, cleaned, output, scans, prev>>

\* one iteration of the loop over the lines: the three checks on one line
ClassifyLine ==
    /\ pc = "quality_loop"
    /\ line_num >= 1
    /\ LET f     == files[file_idx]
           lines == FileLines[f]
           line  == lines[line_num]
       IN  /\ report' =
                [report EXCEPT
                    !.performance_issues =
                        check_performance_patterns(@, f, line_num, line),
                    !.security_issues = check_security_patterns(@, f, line_num, line),
                    !.code_issues = check_quality_patterns(@, f, line_num, line)]
           /\ IF line_num < Len(lines)
              THEN /\ line_num' = line_num + 1
                   /\ UNCHANGED <<pc, plan, files, file_idx>>
              ELSE NextFile(files, file_idx)
    /\ UNCHANGED <<tester_vars, tree, kernel, action, warnings, cleaned, output, scans, prev>>

(***************************************************************************)
(* analyze_binary_size and _analyze_elf_sections                           *)
(***************************************************************************)
KernelSizeLimit == 10 * 1024 * 1024

SectionSizeLimit == 1024 * 1024

\* the section test with >= for >
SectionOfLineInclusive(line) ==
    IF ~Contains(line, marker_contents) THEN <<>>
    ELSE LET parts == Fields(line)
         IN  IF Len(parts) < 3 THEN <<>>
             ELSE LET size == ParseHex(parts[3])
                  IN  IF size.ok /\ size.value >= SectionSizeLimit
                      THEN <<[section_name |-> parts[2], size |-> size.value]>>
                      ELSE <<>>

\* one iteration of the loop over the dump lines: what it adds to large_sections
SectionOfLine(line) ==
    IF ~Contains(line, marker_contents) THEN <<>>
    ELSE LET parts == Fields(line)
         IN  IF Len(parts) < 3 THEN <<>>
             ELSE LET size == ParseHex(parts[3])
                  IN  IF size.ok /\ size.value > SectionSizeLimit
                      THEN <<[section_name |-> parts[2], size |-> size.value]>>
                      ELSE <<>>

\* a loop that a size field that is no number ends
RECURSIVE LargeSectionsUntilMalformed(_, _)
LargeSectionsUntilMalformed(lines, k) ==
    IF k > Len(lines) THEN <<>>
    ELSE IF /\ Contains(lines[k], marker_contents)
            /\ Len(Fields(lines[k])) >= 3
            /\ ~ParseHex(Fields(lines[k])[3]).ok
    THEN <<>>
    ELSE SectionOfLine(lines[k]) \o LargeSectionsUntilMalformed(lines, k + 1)

RECURSIVE LargeSectionsOf(_, _)
LargeSectionsOf(lines, k) ==
    IF k > Len(lines) THEN <<>>
    ELSE SectionOfLine(lines[k]) \o LargeSectionsOf(lines, k + 1)

\* large_sections of every dump of the model, computed once
LargeSections ==
    Tabulate([out \in {k.stdout : k \in Kernels} |->
                LargeSectionsOf(SplitOn(out, "\n"), 1)])

SectionSuggestion(s) ==
    [category |-> "binary_size",
     issue |-> [text |-> "Large section {section_name}: {size / 1024:.1f}KB", file |-> "",
                section |-> s.section_name, value |-> s.size],
     suggestion |-> "Investigate if {section_name} can be optimized or compressed",
     impact |-> "medium"]

analyze_elf_sections(suggestions, objdump_output) ==
    LET large_sections == LargeSections[objdump_output]
    IN  suggestions \o [i \in 1..Len(large_sections) |-> SectionSuggestion(large_sections[i])]

KernelSizeSuggestion(kernel_size) ==
    [category |-> "binary_size",
     issue |-> [text |-> "Kernel size is large: {kernel_size / 1024 / 1024:.1f}MB",
                file |-> "", section |-> <<>>, value |-> kernel_size],
     suggestion |-> "Consider enabling link-time optimization (-flto)",
     impact |-> "high"]

\* report.metrics[key] = value
SetMetric(metrics, key, value) == {m \in metrics : m[1] # key} \cup {<<key, value>>}

\* the kernel size test with >= for >
analyze_binary_size_inclusive(rep, k) ==
    IF ~k.exists THEN rep
    ELSE LET sized == IF k.size >= KernelSizeLimit
                      THEN Append(rep.suggestions, KernelSizeSuggestion(k.size))
                      ELSE rep.suggestions
         IN  [rep EXCEPT
                !.metrics = SetMetric(@, "kernel_size", k.size),
                !.suggestions = IF k.dump_ok THEN analyze_elf_sections(sized, k.stdout)
                                ELSE sized]

\* an analysis that records nothing unless the dump command succeeded
analyze_binary_size_needs_dump(rep, k) ==
    IF ~k.exists \/ ~k.dump_ok THEN rep
    ELSE LET sized == IF k.size > KernelSizeLimit
                      THEN Append(rep.suggestions, KernelSizeSuggestion(k.size))
                      ELSE rep.suggestions
         IN  [rep EXCEPT
                !.metrics = SetMetric(@, "kernel_size", k.size),
                !.suggestions = analyze_elf_sections(sized, k.stdout)]

analyze_binary_size(rep, k) ==
    IF ~k.exists THEN rep
    ELSE LET sized == IF k.size > KernelSizeLimit
                      THEN Append(rep.suggestions, KernelSizeSuggestion(k.size))
                      ELSE rep.suggestions
         IN  [rep EXCEPT
                !.metrics = SetMetric(@, "kernel_size", k.size),
                !.suggestions = IF k.dump_ok THEN analyze_elf_sections(sized, k.stdout)
                                ELSE sized]

AnalyzeBinarySize ==
    /\ pc = "binary"
    /\ report' = analyze_binary_size(report, kernel)
    /\ Return
    /\ UNCHANGED <<tester_vars, tree, kernel, action, warnings, cleaned, output, scans, prev>>

(***************************************************************************)
(* check_performance_hotspots and _analyze_hotspot_file                    *)
(***************************************************************************)
LoopThreshold == 10

MallocThreshold == 5

LockThreshold == 15

\* the three re.findall counts of every readable text, computed once
HotspotCounts ==
    Tabulate([f \in {g \in FileIds : Files[g].readable} |->
        [loop_count |-> re_findall_len(LoopPattern, Files[f].text),
         malloc_count |-> re_findall_len(MallocPattern, Files[f].text),
         lock_count |-> re_findall_len(LockPattern, Files[f].text)]])

HotspotSuggestion(f, text, count, advice, impact) ==
    [category |-> "performance",
     issue |-> [text |-> text, file |-> Files[f].name, section |-> <<>>, value |-> count],
     suggestion |-> advice,
     impact |-> impact]

\* the three threshold tests with >= for >
analyze_hotspot_file_inclusive(suggestions, f) ==
    LET n  == HotspotCounts[f]
        s1 == IF n.loop_count >= LoopThreshold
              THEN Append(suggestions,
                          HotspotSuggestion(f, "{file_path.name}: High loop count ({loop_count})",
                                            n.loop_count,
                                            "Review loops for optimization opportunities",
                                            "medium"))
              ELSE suggestions
        s2 == IF n.malloc_count >= MallocThreshold
              THEN Append(s1,
                          HotspotSuggestion(f, "{file_path.name}: Many allocations ({malloc_count})",
                                            n.malloc_count,
                                            "Consider object pooling or pre-allocation",
                                            "high"))
              ELSE s1
    IN  IF n.lock_count >= LockThreshold
        THEN Append(s2,
                    HotspotSuggestion(f, "{file_path.name}: Many locks ({lock_count})",
                                      n.lock_count,
                                      "Review for lock contention and consider lock-free alternatives",
                                      "high"))
        ELSE s2

\* the body of the try block of _analyze_hotspot_file
analyze_hotspot_file(suggestions, f) ==
    LET n  == HotspotCounts[f]
        s1 == IF n.loop_count > LoopThreshold
              THEN Append(suggestions,
                          HotspotSuggestion(f, "{file_path.name}: High loop count ({loop_count})",
                                            n.loop_count,
                                            "Review loops for optimization opportunities",
                                            "medium"))
              ELSE suggestions
        s2 == IF n.malloc_count > MallocThreshold
              THEN Append(s1,
                          HotspotSuggestion(f, "{file_path.name}: Many allocations ({malloc_count})",
                                            n.malloc_count,
                                            "Consider object pooling or pre-allocation",
                                            "high"))
              ELSE s1
    IN  IF n.lock_count > LockThreshold
        THEN Append(s2,
                    HotspotSuggestion(f, "{file_path.name}: Many locks ({lock_count})",
                                      n.lock_count,
                                      "Review for lock contention and consider lock-free alternatives",
                                      "high"))
        ELSE s2

\* the files of the four hotspot patterns, in the order of hotspot_patterns
CheckPerformanceHotspots ==
    /\ pc = "hotspots"
    /\ LET hot == glob(tree, "hotspot_mm") \o glob(tree, "hotspot_scheduler")
                      \o glob(tree, "hotspot_syscalls") \o glob(tree, "hotspot_ipc")
       IN  IF hot = <<>>
           THEN Return
           ELSE /\ pc' = "hotspots_loop"
                /\ plan' = plan
                /\ files' = hot
                /\ file_idx' = 1
                /\ line_num' = 0
    /\ UNCHANGED <<tester_vars, tree, kernel, action, report, warnings, cleaned, output, scans, prev>>

\* a hotspot analyzer without its handler: the error of open() leaves main()
AnalyzeHotspotFileRaises ==
    /\ pc = "hotspots_loop"
    /\ LET f == files[file_idx]
       IN  IF Files[f].readable
           THEN /\ report' = [report EXCEPT !.suggestions = analyze_hotspot_file(@, f)]
                /\ NextFile(files, file_idx)
           ELSE /\ report' = report
                /\ pc' = "aborted"
                /\ UNCHANGED <<plan, files, file_idx, line_num>>
    /\ UNCHANGED <<tester_vars, tree, kernel, action, warnings, cleaned, output, scans, prev>>

\* one iteration of the loop over the hotspot files: _analyze_hotspot_file
AnalyzeHotspotFile ==
    /\ pc = "hotspots_loop"
    /\ LET f == files[file_idx]
       IN  IF Files[f].readable
           THEN /\ report' = [report EXCEPT !.suggestions = analyze_hotspot_file(@, f)]
                /\ warnings' = warnings
           ELSE /\ report' = report
                /\ warnings' = Append(warnings, f)
    /\ NextFile(files, file_idx)
    /\ UNCHANGED <<tester_vars, tree, kernel, action, cleaned, output, scans, prev>>

(***************************************************************************)
(* optimize_rust_builds and _optimize_cargo_toml                           *)
(***************************************************************************)
CargoSuggestion(f, text, advice, impact) ==
    [category |-> "rust_optimization",
     issue |-> [text |-> text, file |-> Files[f].path, section |-> <<>>, value |-> 0],
     suggestion |-> advice,
     impact |-> impact]

optimize_cargo_toml(suggestions, f) ==
    LET content == Files[f].text
        s1 == IF ~Contains(content, marker_release)
              THEN Append(suggestions,
                          CargoSuggestion(f, "{cargo_path}: Missing release profile optimization",
                                          "Add [profile.release] section with lto = true, codegen-units = 1",
                                          "medium"))
              ELSE suggestions
    IN  IF ~Contains(content, marker_abort)
        THEN Append(s1, CargoSuggestion(f, "{cargo_path}: Using default panic strategy",
                                        "Add panic = \"abort\" for smaller binary size",
                                        "low"))
        ELSE s1

OptimizeRustBuilds ==
    /\ pc = "rust"
    /\ LET cargo_files == glob(tree, "cargo_toml")
       IN  IF cargo_files = <<>>
           THEN Return
           ELSE /\ pc' = "rust_loop"
                /\ plan' = plan
                /\ files' = cargo_files
                /\ file_idx' = 1
                /\ line_num' = 0
    /\ UNCHANGED <<tester_vars, tree, kernel, action, report, warnings, cleaned, output, scans, prev>>

OptimizeCargoToml ==
    /\ pc = "rust_loop"
    /\ LET f == files[file_idx]
       IN  IF Files[f].readable
           THEN /\ report' = [report EXCEPT !.suggestions = optimize_cargo_toml(@, f)]
                /\ warnings' = warnings
           ELSE /\ report' = report
                /\ warnings' = Append(warnings, f)
    /\ NextFile(files, file_idx)
    /\ UNCHANGED <<tester_vars, tree, kernel, action, cleaned, output, scans, prev>>

(***************************************************************************)
(* generate_optimization_report                                            *)
(***************************************************************************)
First(s, n) == SubSeq(s, 1, IF Len(s) < n THEN Len(s) ELSE n)

\* sum(1 for issue in issues if marker in issue['issue'])
RECURSIVE CountMarker(_, _)
CountMarker(issues, marker) ==
    IF issues = <<>> THEN 0
    ELSE (IF Contains(Head(issues).issue, marker) THEN 1 ELSE 0)
             + CountMarker(Tail(issues), marker)

\* a grouping that puts a category seen for the first time ahead of the others
AddToCategoryNewestFirst(by_category, suggestion) ==
    IF \E i \in 1..Len(by_category) : by_category[i].category = suggestion.category
    THEN [i \in 1..Len(by_category) |->
            IF by_category[i].category = suggestion.category
            THEN [by_category[i] EXCEPT !.suggestions = Append(@, suggestion)]
            ELSE by_category[i]]
    ELSE <<[category |-> suggestion.category, suggestions |-> <<suggestion>>]>>
             \o by_category

\* by_category[category].append(suggestion), the dict kept in insertion order
\* (groups is by_category, evaluated once)
AddToCategory(by_category, suggestion) ==
    LET Add(groups) ==
            IF \E i \in 1..Len(groups) : groups[i].category = suggestion.category
            THEN [i \in 1..Len(groups) |->
                    IF groups[i].category = suggestion.category
                    THEN [groups[i] EXCEPT !.suggestions = Append(@, suggestion)]
                    ELSE groups[i]]
            ELSE Append(groups,
                        [category |-> suggestion.category, suggestions |-> <<suggestion>>])
    IN  CHOOSE added \in {Add(groups) : groups \in {by_category}} : TRUE

RECURSIVE GroupByCategory(_, _)
GroupByCategory(by_category, suggestions) ==
    IF suggestions = <<>> THEN by_category
    ELSE GroupByCategory(AddToCategory(by_category, Head(suggestions)), Tail(suggestions))

QualityCounts(code_issues) ==
    LET todo_count  == CountMarker(code_issues, marker_todo)
        fixme_count == CountMarker(code_issues, marker_fixme)
    IN  [todo_count |-> todo_count, fixme_count |-> fixme_count,
         other |-> Len(code_issues) - todo_count - fixme_count]

\* the verdict with the security test first
VerdictSecurityFirst(rep) ==
    LET total_issues == Len(rep.performance_issues) + Len(rep.security_issues)
                            + Len(rep.code_issues)
    IN  IF Len(rep.security_issues) = 0 THEN "SECURITY LOOKS GOOD"
        ELSE IF total_issues = 0 THEN "EXCELLENT CODE QUALITY"
        ELSE "SECURITY ISSUES NEED ATTENTION"

Verdict(rep) ==
    LET total_issues == Len(rep.performance_issues) + Len(rep.security_issues)
                            + Len(rep.code_issues)
    IN  IF total_issues = 0 THEN "EXCELLENT CODE QUALITY"
        ELSE IF Len(rep.security_issues) = 0 THEN "SECURITY LOOKS GOOD"
        ELSE "SECURITY ISSUES NEED ATTENTION"

\* what the report prints: the first 10 performance findings, the quality
\* counts, the groups of suggestions and the first 5 of each, the summary
Rendered(rep) ==
    [printed |-> TRUE,
     performance_shown |-> First(rep.performance_issues, 10),
     quality |-> IF rep.code_issues # <<>> THEN <<QualityCounts(rep.code_issues)>> ELSE <<>>,
     by_category |-> GroupByCategory(<<>>, rep.suggestions),
     suggestions_shown |->
        CHOOSE shown \in {[i \in 1..Len(by_category) |-> First(by_category[i].suggestions, 5)] :
                             by_category \in {GroupByCategory(<<>>, rep.suggestions)}} : TRUE,
     total_issues |-> Len(rep.performance_issues) + Len(rep.security_issues)
                          + Len(rep.code_issues),
     verdict |-> Verdict(rep)]

\* a report that keeps of the performance findings only the ones it shows
GenerateOptimizationReportTruncates ==
    /\ pc = "report"
    /\ output' = Rendered(report)
    /\ report' = [report EXCEPT !.performance_issues = First(@, 10)]
    /\ Return
    /\ UNCHANGED <<tester_vars, tree, kernel, action, warnings, cleaned, scans, prev>>

GenerateOptimizationReport ==
    /\ pc = "report"
    /\ output' = Rendered(report)
    /\ Return
    /\ UNCHANGED <<tester_vars, tree, kernel, action, report, warnings, cleaned, scans, prev>>

\* run_optimization logs the duration and returns to main()
Completed ==
    /\ pc = "completed"
    /\ Return
    /\ UNCHANGED <<tester_vars, tree, kernel, action, report, warnings, cleaned, output, scans, prev>>

\* a report that outlives its process
OrionOptimizerKeepsReport(previous) == previous

\* OrionOptimizer.__init__ in a new process: a new OptimizationReport, whatever
\* the report of the previous process held
OrionOptimizer(previous) == OptimizationReport

\* the process has exited; the same command line is run again on the tree as
\* it is now, with a new OrionOptimizer
Rerun ==
    /\ pc = "done"
    /\ scans < MaxScans
    /\ scans' = scans + 1
    /\ prev' = [known |-> TRUE, tree |-> tree, report |-> report]
    /\ report' = OrionOptimizer(report)
    /\ pc' = Head(Steps(action))
    /\ plan' = Tail(Steps(action))
    /\ warnings' = <<>>
    /\ cleaned' = 0
    /\ output' = NoOutput
    /\ UNCHANGED <<tester_vars, tree, kernel, action, files, file_idx, line_num>>

Next ==
    \/ \E a \in Actions : Main(a)
    \/ CleanupProject
    \/ AnalyzeCodeQuality
    \/ OpenFile
    \/ OpenFails
    \/ ClassifyLine
    \/ AnalyzeBinarySize
    \/ CheckPerformanceHotspots
    \/ AnalyzeHotspotFile
    \/ OptimizeRustBuilds
    \/ OptimizeCargoToml
    \/ GenerateOptimizationReport
    \/ Completed
    \/ Rerun

Spec == Init /\ [][Next]_vars

\* the process is sequential and nothing waits: a step that can be taken is taken
FairSpec == Spec /\ WF_vars(Next)

(***************************************************************************)
(* src/tools/test.py: TestSuite and the six suite functions                *)
(***************************************************************************)
\* TestResult.__init__; duration and details are printed and never tested
TestResult(name, passed) == [name |-> name, passed |-> passed]

\* TestSuite.__init__
TestSuite(name) == [name |-> name, tests |-> <<>>]

\* a suite with the tests a suite function added, in the order of add_test
SuiteOf(name, tests) == [TestSuite(name) EXCEPT !.tests = tests]

passed_count(suite) == Len(SelectSeq(suite.tests, LAMBDA test : test.passed))

failed_count(suite) == Len(SelectSeq(suite.tests, LAMBDA test : ~test.passed))

total_count(suite) == Len(suite.tests)

\* passed_count / total_count * 100 in tenths of a percent, 0 for a suite without tests
success_rate(suite) ==
    IF total_count(suite) > 0 THEN (passed_count(suite) * 1000) \div total_count(suite) ELSE 0

\* what a call of a suite function ends in: the suite it returns, or an exception
Returns(suite) == [raised |-> FALSE, suite |-> suite]

Raises == [raised |-> TRUE, suite |-> TestSuite("")]

\* `symbol in stdout`: the symbol is part of a name of the symbol table
IsSubstring(a, b) == \E i \in 0..(Len(b) - Len(a)) : SubSeq(b, i + 1, i + Len(a)) = a

SymbolFound(p, symbol) == \E name \in p.symtab : IsSubstring(symbol, name)

\* run_command never raises: four tests, one per build target
test_build_system(p) ==
    LET names == <<"Clean build", "Bootloader build", "Kernel build", "Complete build">>
    IN  Returns(SuiteOf("Build System",
            [i \in 1..Len(BuildTargets) |-> TestResult(names[i], BuildTargets[i] \in p.build_ok)]))

test_kernel_components(p) ==
    LET exists  == <<TestResult("Kernel binary exists", p.kernel_exists)>>
        size    == IF p.kernel_exists
                   THEN <<TestResult("Kernel size reasonable", p.kernel_size < 1024 * 1024 * 10)>>
                   ELSE <<>>
        symbols == IF p.kernel_exists /\ p.objdump_ok
                   THEN [i \in 1..Len(required_symbols) |->
                            TestResult("Symbol " \o required_symbols[i] \o " present",
                                       SymbolFound(p, required_symbols[i]))]
                   ELSE <<>>
    IN  Returns(SuiteOf("Kernel Components", exists \o size \o symbols))

\* no test at all when neither lib/orion-driver nor a driver directory exists
test_driver_framework(p) ==
    LET framework == IF p.framework_dir
                     THEN <<TestResult("Framework unit tests", p.cargo_test_ok),
                            TestResult("Framework compilation", p.cargo_check_ok)>>
                     ELSE <<>>
        present   == SelectSeq(driver_categories, LAMBDA c : c \in p.driver_dirs)
        drivers   == [i \in 1..Len(present) |->
                         TestResult(present[i] \o " driver compilation",
                                    present[i] \in p.drivers_ok)]
    IN  Returns(SuiteOf("Driver Framework", framework \o drivers))

\* the tests of one security file: none if it does not exist
SecurityFileTests(p, f) ==
    IF f \in p.security_present
    THEN [i \in 1..Len(security_checks) |->
             TestResult(f \o ": " \o security_checks[i],
                        security_checks[i] \in p.security_found[f])]
    ELSE <<>>

\* open() and read() are outside any try: a security file that exists and
\* cannot be read ends the function with an exception
test_security_features(p) ==
    LET symbols == IF p.kernel_exists /\ p.objdump_ok
                   THEN [i \in 1..Len(security_symbols) |->
                            TestResult("Security symbol " \o security_symbols[i],
                                       SymbolFound(p, security_symbols[i]))]
                   ELSE <<>>
    IN  IF \E f \in p.security_present : f \notin p.security_readable
        THEN Raises
        ELSE Returns(SuiteOf("Security Features",
                 symbols \o SecurityFileTests(p, security_files[1])
                         \o SecurityFileTests(p, security_files[2])
                         \o SecurityFileTests(p, security_files[3])))

\* the exceptions of Popen, terminate and wait are caught and make a failed test
test_qemu_boot(p) ==
    IF ~p.qemu_found
    THEN Returns(SuiteOf("QEMU Boot Test", <<TestResult("QEMU availability", FALSE)>>))
    ELSE IF ~p.iso_exists
    THEN Returns(SuiteOf("QEMU Boot Test", <<TestResult("QEMU availability", TRUE),
                                             TestResult("ISO availability", FALSE)>>))
    ELSE Returns(SuiteOf("QEMU Boot Test", <<TestResult("QEMU availability", TRUE),
                                             TestResult("ISO availability", TRUE),
                                             TestResult("QEMU boot initiation", p.qemu_starts)>>))

\* open() is outside any try: a source file that cannot be opened ends the
\* function with an exception
test_code_quality(p) ==
    IF ~p.sources_readable
    THEN Raises
    ELSE Returns(SuiteOf("Code Quality",
             <<TestResult("TODO comments", p.todo_count < 10),
               TestResult("FIXME comments", p.fixme_count = 0)>>
             \o [i \in 1..Len(required_files) |->
                    TestResult("Required file: " \o required_files[i],
                               required_files[i] \in p.required_present)]))

\* run_all_tests: test_functions, by their key in suite_map
test_functions == <<"build", "kernel", "drivers", "security", "qemu", "quality">>

\* the choices of --suite
SuiteArgs == Range(test_functions) \cup {"all"}

\* main: suite_map[name]()
suite_map(name, p) ==
    CASE name = "build"    -> test_build_system(p)
      [] name = "kernel"   -> test_kernel_components(p)
      [] name = "drivers"  -> test_driver_framework(p)
      [] name = "security" -> test_security_features(p)
      [] name = "qemu"     -> test_qemu_boot(p)
      [] name = "quality"  -> test_code_quality(p)

(***************************************************************************)
(* src/tools/test.py: generate_report, run_all_tests and main              *)
(***************************************************************************)
\* the lines generate_report prints for one suite
SuiteLines(suite) ==
    [name         |-> suite.name,
     passed       |-> passed_count(suite),
     total        |-> total_count(suite),
     success_rate |-> success_rate(suite),
     failed_tests |-> SelectSeq(suite.tests, LAMBDA test : ~test.passed),
     passed_tests |-> SelectSeq(suite.tests, LAMBDA test : test.passed)]

RECURSIVE SumOver(_, _, _)
SumOver(results, i, acc) ==
    IF i > Len(results) THEN acc
    ELSE SumOver(results, i + 1,
                 [total_tests     |-> acc.total_tests + total_count(results[i]),
                  total_passed    |-> acc.total_passed + passed_count(results[i]),
                  overall_success |-> IF failed_count(results[i]) > 0 THEN FALSE
                                      ELSE acc.overall_success])

\* generate_report: the loop over the suites, then the summary; the success
\* rate of the summary divides by total_tests, and a ZeroDivisionError leaves
\* the function after the Failed line, before the banner
generate_report(results) ==
    LET sums   == SumOver(results, 1,
                          [total_tests |-> 0, total_passed |-> 0, overall_success |-> TRUE])
        suites == [i \in 1..Len(results) |-> SuiteLines(results[i])]
    IN  IF sums.total_tests = 0
        THEN [raised  |-> TRUE,
              value   |-> FALSE,
              printed |-> [NoSummary EXCEPT !.suites = suites,
                                            !.total_tests = sums.total_tests,
                                            !.total_passed = sums.total_passed,
                                            !.failed = sums.total_tests - sums.total_passed]]
        ELSE [raised  |-> FALSE,
              value   |-> sums.overall_success,
              printed |-> [suites       |-> suites,
                           total_tests  |-> sums.total_tests,
                           total_passed |-> sums.total_passed,
                           failed       |-> sums.total_tests - sums.total_passed,
                           success_rate |-> (sums.total_passed * 1000) \div sums.total_tests,
                           banner       |-> IF sums.overall_success
                                            THEN "ALL TESTS PASSED" ELSE "SOME TESTS FAILED"]]

\* main: the arguments are parsed and OrionTester() is built
TesterMain(s) ==
    /\ test_pc = "start"
    /\ suite_arg' = s
    /\ test_pc' = IF s = "all" THEN "run_all" ELSE "single"
    /\ func_idx' = IF s = "all" THEN 1 ELSE 0
    /\ UNCHANGED <<optimizer_vars, project, test_results, errors, summary, success, exit_code>>

\* where run_all_tests goes after the function at func_idx
NextFunction ==
    /\ func_idx' = func_idx + 1
    /\ test_pc' = IF func_idx < Len(test_functions) THEN "run_all" ELSE "report"

\* run_all_tests: test_func() returns and its suite is appended
RunTestFunction ==
    /\ test_pc = "run_all"
    /\ LET r == suite_map(test_functions[func_idx], project)
       IN  /\ ~r.raised
           /\ test_results' = Append(test_results, r.suite)
    /\ NextFunction
    /\ UNCHANGED <<optimizer_vars, project, suite_arg, errors, summary, success, exit_code>>

\* run_all_tests: test_func() raises; the error is logged and the loop goes on
TestFunctionRaises ==
    /\ test_pc = "run_all"
    /\ suite_map(test_functions[func_idx], project).raised
    /\ errors' = Append(errors, test_functions[func_idx])
    /\ NextFunction
    /\ UNCHANGED <<optimizer_vars, project, suite_arg, test_results, summary, success, exit_code>>

\* main with one suite: nothing catches an exception of the suite function
RunSingleSuite ==
    /\ test_pc = "single"
    /\ LET r == suite_map(suite_arg, project)
       IN  IF r.raised
           THEN /\ test_pc' = "raised"
                /\ UNCHANGED test_results
           ELSE /\ test_pc' = "report"
                /\ test_results' = Append(test_results, r.suite)
    /\ UNCHANGED <<optimizer_vars, project, suite_arg, func_idx, errors, summary, success,
                   exit_code>>

\* generate_report, called by run_all_tests and by main; its value is what
\* run_all_tests returns
GenerateReport ==
    /\ test_pc = "report"
    /\ LET r == generate_report(test_results)
       IN  /\ summary' = r.printed
           /\ test_pc' = IF r.raised THEN "raised" ELSE "returned"
           /\ success' = r.value
    /\ UNCHANGED <<optimizer_vars, project, suite_arg, func_idx, test_results, errors, exit_code>>

\* sys.exit(0 if success else 1); an exception that leaves main ends the
\* process with a traceback and status 1
SysExit ==
    /\ test_pc \in {"returned", "raised"}
    /\ exit_code' = IF test_pc = "returned" /\ success THEN 0 ELSE 1
    /\ test_pc' = "exited"
    /\ UNCHANGED <<optimizer_vars, project, suite_arg, func_idx, test_results, errors, summary,
                   success>>

TesterNext ==
    \/ \E s \in SuiteArgs : TesterMain(s)
    \/ RunTestFunction
    \/ TestFunctionRaises
    \/ RunSingleSuite
    \/ GenerateReport
    \/ SysExit

\* a run of test.py on any of the projects; optimize.py is not running
TesterInit ==
    /\ OptimizerIdle
    /\ project \in Projects
    /\ suite_arg = "none"
    /\ test_pc = "start"
    /\ func_idx = 0
    /\ test_results = <<>>
    /\ errors = <<>>
    /\ summary = NoSummary
    /\ success = FALSE
    /\ exit_code = -1

TesterSpec == TesterInit /\ [][TesterNext]_vars

(***************************************************************************)
(* Properties                                                              *)
(***************************************************************************)
IsPrefix(s, t) == Len(s) <= Len(t) /\ SubSeq(t, 1, Len(s)) = s

\* what a step appended: the part of new after old
Added(old, new) == SubSeq(new, Len(old) + 1, Len(new))

Categories == {"performance", "security", "quality"}

\* the sequence of the report that holds the findings of a category
IssuesOf(rep, category) ==
    CASE category = "performance" -> rep.performance_issues
      [] category = "security" -> rep.security_issues
      [] category = "quality" -> rep.code_issues

TotalFindings(rep) ==
    Len(rep.performance_issues) + Len(rep.security_issues) + Len(rep.code_issues)

\* C1: the printed verdict follows the decision table: no finding at all gives
\* "excellent"; otherwise no security finding gives "security looks good";
\* otherwise, whatever the other counts, "security issues need attention".
C1_VerdictTable ==
    output.printed =>
        /\ output.verdict \in {"EXCELLENT CODE QUALITY", "SECURITY LOOKS GOOD",
                               "SECURITY ISSUES NEED ATTENTION"}
        /\ (TotalFindings(report) = 0 <=> output.verdict = "EXCELLENT CODE QUALITY")
        /\ (TotalFindings(report) # 0 /\ Len(report.security_issues) = 0
                <=> output.verdict = "SECURITY LOOKS GOOD")
        /\ (Len(report.security_issues) >= 1
                <=> output.verdict = "SECURITY ISSUES NEED ATTENTION")

\* a report with security and performance findings was rendered
C1_Witness ==
    /\ output.printed
    /\ Len(report.security_issues) >= 1
    /\ Len(report.performance_issues) >= 1
    /\ output.verdict = "SECURITY ISSUES NEED ATTENTION"

\* C2: within one run every step leaves each of the three finding sequences
\* and the suggestion sequence a prefix of its new value.
C2_AppendOnly ==
    [][scans' = scans =>
          /\ IsPrefix(report.performance_issues, report'.performance_issues)
          /\ IsPrefix(report.security_issues, report'.security_issues)
          /\ IsPrefix(report.code_issues, report'.code_issues)
          /\ IsPrefix(report.suggestions, report'.suggestions)]_vars

\* a run that appended to every sequence more than once and rendered its report
C2_Witness ==
    /\ output.printed
    /\ Len(report.performance_issues) >= 2
    /\ Len(report.security_issues) >= 2
    /\ Len(report.code_issues) >= 2
    /\ Len(report.suggestions) >= 2

MatchingRules(category, line_clean) ==
    {k \in 1..Len(Patterns[category]) : SearchResult[category][line_clean][k]}

\* C4: classifying one line appends to each category as many findings as rules
\* of the category match the line, one per matching rule, all for this file
\* and line and with pairwise different advisories; no match, no finding.
C4_OneFindingPerMatch ==
    [][(pc = "quality_loop" /\ line_num >= 1) =>
          \A c \in Categories :
              LET f    == files[file_idx]
                  hits == MatchingRules(c, Strip(FileLines[f][line_num]))
                  new  == Added(IssuesOf(report, c), IssuesOf(report', c))
              IN  /\ IsPrefix(IssuesOf(report, c), IssuesOf(report', c))
                  /\ Len(new) = Cardinality(hits)
                  /\ \A i \in 1..Len(new) :
                        new[i].file = Files[f].path /\ new[i].line = line_num
                  /\ \A i, j \in 1..Len(new) :
                        i # j => new[i].suggestion # new[j].suggestion
                  /\ {new[i].suggestion : i \in 1..Len(new)}
                        = {Patterns[c][k].suggestion : k \in hits}]_vars

\* one line has given two findings of the same category
C4_Witness ==
    \E c \in Categories :
        \E i, j \in 1..Len(IssuesOf(report, c)) :
            /\ i # j
            /\ IssuesOf(report, c)[i].file = IssuesOf(report, c)[j].file
            /\ IssuesOf(report, c)[i].line = IssuesOf(report, c)[j].line
            /\ IssuesOf(report, c)[i].suggestion # IssuesOf(report, c)[j].suggestion

\* C5: the severity of a finding is fixed by the sequence it is in.
C5_SeverityByCategory ==
    /\ \A i \in 1..Len(report.security_issues) : report.security_issues[i].severity = "high"
    /\ \A i \in 1..Len(report.code_issues) : report.code_issues[i].severity = "low"
    /\ \A i \in 1..Len(report.performance_issues) :
          report.performance_issues[i].severity = "medium"

\* findings of all three categories, from more than one rule
C5_Witness ==
    /\ report.security_issues # <<>>
    /\ report.performance_issues # <<>>
    /\ Len(report.code_issues) >= 2

\* the impacts of the suggestions of a sequence, and their advisories
Impacts(s) == [i \in 1..Len(s) |-> s[i].impact]

Advisories(s) == [i \in 1..Len(s) |-> s[i].suggestion]

\* C6: for one readable hotspot file the analyzer appends the suggestions of
\* the thresholds strictly exceeded, each on its own: loops > 10 (medium),
\* allocations > 5 (high), locks > 15 (high), in this order, all of category
\* performance.
C6_HotspotThresholds ==
    [][(pc = "hotspots_loop" /\ Files[files[file_idx]].readable) =>
          LET n   == HotspotCounts[files[file_idx]]
              new == Added(report.suggestions, report'.suggestions)
          IN  /\ IsPrefix(report.suggestions, report'.suggestions)
              /\ \A i \in 1..Len(new) :
                    /\ new[i].category = "performance"
                    /\ new[i].issue.file = Files[files[file_idx]].name
              /\ Impacts(new) = (IF n.loop_count > 10 THEN <<"medium">> ELSE <<>>)
                                    \o (IF n.malloc_count > 5 THEN <<"high">> ELSE <<>>)
                                    \o (IF n.lock_count > 15 THEN <<"high">> ELSE <<>>)
              /\ Advisories(new) =
                    (IF n.loop_count > 10
                     THEN <<"Review loops for optimization opportunities">> ELSE <<>>)
                    \o (IF n.malloc_count > 5
                        THEN <<"Consider object pooling or pre-allocation">> ELSE <<>>)
                    \o (IF n.lock_count > 15
                        THEN <<"Review for lock contention and consider lock-free alternatives">>
                        ELSE <<>>)
              /\ \A i \in 1..Len(new) :
                    new[i].suggestion = "Consider object pooling or pre-allocation"
                        => /\ new[i].issue.text = "{file_path.name}: Many allocations ({malloc_count})"
                           /\ new[i].issue.value = n.malloc_count]_vars

\* a file at the three thresholds (10, 5, 15) gave nothing and a file one above
\* each (11, 6, 16) gave the three suggestions
C6_Witness ==
    /\ pc = "done"
    /\ tree = <<"kernel_core_ipc_c", "kernel_core_scheduler_c">>
    /\ HotspotCounts["kernel_core_ipc_c"] =
          [loop_count |-> 10, malloc_count |-> 5, lock_count |-> 15]
    /\ HotspotCounts["kernel_core_scheduler_c"] =
          [loop_count |-> 11, malloc_count |-> 6, lock_count |-> 16]
    /\ ~kernel.exists
    /\ Impacts(report.suggestions) = <<"medium", "high", "high">>
    /\ \A i \in 1..3 : report.suggestions[i].issue.file = "scheduler.c"

\* the lines of a dump, and for each whether it is a section line the analyzer
\* has to report: the marker, at least three fields, a third field that is a
\* base-16 number above 1 MiB
DumpLines == Tabulate([out \in {k.stdout : k \in Kernels} |-> SplitOn(out, "\n")])

IsLargeSectionLine(line) ==
    /\ Contains(line, marker_contents)
    /\ Len(Fields(line)) >= 3
    /\ ParseHex(Fields(line)[3]).ok
    /\ ParseHex(Fields(line)[3]).value > 1048576

\* a candidate line that does not parse
IsMalformedLine(line) ==
    /\ Contains(line, marker_contents)
    /\ (Len(Fields(line)) < 3 \/ ~ParseHex(Fields(line)[3]).ok)

LargeSectionLines ==
    Tabulate([out \in DOMAIN DumpLines |->
                {i \in 1..Len(DumpLines[out]) : IsLargeSectionLine(DumpLines[out][i])}])

MalformedLines ==
    Tabulate([out \in DOMAIN DumpLines |->
                {i \in 1..Len(DumpLines[out]) : IsMalformedLine(DumpLines[out][i])}])

\* the names of the sections the analyzer has to report, in dump line order
RECURSIVE NamesOfLines(_, _, _)
NamesOfLines(lines, chosen, i) ==
    IF i > Len(lines) THEN <<>>
    ELSE (IF i \in chosen THEN <<Fields(lines[i])[2]>> ELSE <<>>)
             \o NamesOfLines(lines, chosen, i + 1)

LargeSectionNames ==
    Tabulate([out \in DOMAIN DumpLines |->
                NamesOfLines(DumpLines[out], LargeSectionLines[out], 1)])

SectionSuggestions(s) == SelectSeq(s, LAMBDA x : x.issue.section # <<>>)

\* the step of analyze_binary_size on a kernel whose dump command succeeded
DumpAnalyzed == pc = "binary" /\ kernel.exists /\ kernel.dump_ok

\* C7: a malformed candidate line of the dump stops nothing: the analysis
\* returns, and every well-formed section line above 1 MiB has its suggestion,
\* wherever the malformed lines are; one such line and one malformed line give
\* exactly one suggestion.
C7_MalformedLinesSkipped ==
    [][DumpAnalyzed =>
          LET new == SectionSuggestions(Added(report.suggestions, report'.suggestions))
          IN  /\ pc' # "binary"
              /\ Len(new) = Cardinality(LargeSectionLines[kernel.stdout])
              /\ \A i \in LargeSectionLines[kernel.stdout] :
                    \E j \in 1..Len(new) :
                        new[j].issue.section = Fields(DumpLines[kernel.stdout][i])[2]
              /\ (kernel.stdout = JoinLines(<<dump_text, dump_bad>>) => Len(new) = 1)]_vars

\* a dump with a malformed line before a well-formed large section was analyzed
C7_Witness ==
    /\ pc = "done"
    /\ kernel.exists /\ kernel.dump_ok
    /\ \E i \in MalformedLines[kernel.stdout] :
          \E j \in LargeSectionLines[kernel.stdout] : i < j
    /\ Len(SectionSuggestions(report.suggestions))
          = Cardinality(LargeSectionLines[kernel.stdout])
    /\ SectionSuggestions(report.suggestions) # <<>>

IsKernelSizeSuggestion(x) ==
    /\ x.category = "binary_size"
    /\ x.impact = "high"
    /\ x.suggestion = "Consider enabling link-time optimization (-flto)"

\* C8: analyze_binary_size appends one high-impact binary_size suggestion for
\* link-time optimization iff the kernel exists and is larger than 10 MiB, and
\* appends it before the section suggestions of the run.
C8_KernelSizeSuggestion ==
    [][pc = "binary" =>
          LET new  == Added(report.suggestions, report'.suggestions)
              high == {i \in 1..Len(new) : IsKernelSizeSuggestion(new[i])}
          IN  /\ IsPrefix(report.suggestions, report'.suggestions)
              /\ (kernel.exists /\ kernel.size > 10485760 => high = {1})
              /\ (~(kernel.exists /\ kernel.size > 10485760) => high = {})
              /\ \A i \in 1..Len(new) :
                    i \notin high => new[i].impact = "medium" /\ new[i].issue.section # <<>>]_vars

\* a kernel one byte above 10 MiB got the suggestion, ahead of section suggestions
C8_Witness ==
    /\ pc = "hotspots"
    /\ kernel.exists /\ kernel.size = 10485761
    /\ Len(report.suggestions) >= 2
    /\ IsKernelSizeSuggestion(report.suggestions[1])
    /\ report.suggestions[2].issue.section # <<>>

\* C9: the section analyzer appends one medium-impact binary_size suggestion
\* per dump line that has the marker and a third field that is a base-16
\* number above 1 MiB, naming the second field of the line, in line order, and
\* nothing for any other line.
C9_SectionSuggestions ==
    [][DumpAnalyzed =>
          LET new == SelectSeq(Added(report.suggestions, report'.suggestions),
                               LAMBDA x : ~IsKernelSizeSuggestion(x))
          IN  /\ [i \in 1..Len(new) |-> new[i].issue.section]
                    = LargeSectionNames[kernel.stdout]
              /\ \A i \in 1..Len(new) :
                    /\ new[i].category = "binary_size"
                    /\ new[i].impact = "medium"
                    /\ new[i].issue.value > 1048576]_vars

\* a dump with several reportable sections and a section of exactly 1 MiB was
\* analyzed
C9_Witness ==
    /\ pc = "done"
    /\ kernel.exists /\ kernel.dump_ok
    /\ Cardinality(LargeSectionLines[kernel.stdout]) >= 2
    /\ \E i \in 1..Len(DumpLines[kernel.stdout]) :
          /\ Contains(DumpLines[kernel.stdout][i], marker_contents)
          /\ Len(Fields(DumpLines[kernel.stdout][i])) >= 3
          /\ ParseHex(Fields(DumpLines[kernel.stdout][i])[3])
                = [ok |-> TRUE, value |-> 1048576]
    /\ Len(SectionSuggestions(report.suggestions))
          = Cardinality(LargeSectionLines[kernel.stdout])

\* the findings a readable file has to contribute to a category: <<line, rule>>
ExpectedFindings(f, c) ==
    {<<i, k>> \in (1..Len(FileLines[f])) \X (1..Len(Patterns[c])) :
        Files[f].readable /\ SearchResult[c][Strip(FileLines[f][i])][k]}

\* C10: a source file that cannot be read adds nothing to any finding
\* sequence and changes none of them, and the loop goes on with the next file:
\* when the analysis ends every readable file of the list has its findings in
\* the report and no finding names an unreadable file.
C10_UnreadableFileSkipped ==
    [][pc = "quality_loop" =>
          /\ (line_num = 0 /\ ~Files[files[file_idx]].readable) =>
                /\ report' = report
                /\ (file_idx < Len(files) =>
                        pc' = "quality_loop" /\ files' = files /\ file_idx' = file_idx + 1)
          /\ pc' # "quality_loop" =>
                \A i \in 1..Len(files) : \A c \in Categories :
                    LET got == {x \in {IssuesOf(report', c)[j] :
                                            j \in 1..Len(IssuesOf(report', c))} :
                                   x.file = Files[files[i]].path}
                    IN  {<<x.line, x.suggestion>> : x \in got}
                            = {<<e[1], Patterns[c][e[2]].suggestion>> : e \in
                                   ExpectedFindings(files[i], c)}]_vars

\* an unreadable file was skipped and the file after it was classified
C10_Witness ==
    /\ pc = "binary"
    /\ \E i \in 1..Len(tree) : \E j \in 1..Len(tree) :
          /\ i < j
          /\ tree[i] \in Glob.kernel_sources /\ ~Files[tree[i]].readable
          /\ tree[j] \in Glob.kernel_sources /\ Files[tree[j]].readable
          /\ tree[i] \in {warnings[w] : w \in 1..Len(warnings)}
          /\ \E x \in 1..Len(report.security_issues) :
                report.security_issues[x].file = Files[tree[j]].path

\* C11: a scan that generates a report (--action analyze or all) runs to its
\* end whatever files cannot be read, whatever the dump holds and whether or
\* not the kernel exists: the process exits with the report printed, and the
\* printed totals are those of the findings and suggestions accumulated.
C11_ScanCompletes ==
    (action \in {"analyze", "all"} /\ pc # "done")
        ~> (/\ pc = "done"
            /\ output.printed
            /\ output.total_issues = TotalFindings(report)
            /\ output.by_category # <<>> <=> report.suggestions # <<>>)

\* a full run ended after an unreadable source file, an unreadable manifest
\* and a kernel whose dump failed or held a malformed section line
C11_Witness ==
    /\ pc = "done"
    /\ action = "all"
    /\ output.printed
    /\ \E w \in 1..Len(warnings) :
          warnings[w] \in Glob.kernel_sources /\ ~Files[warnings[w]].readable
    /\ \E w \in 1..Len(warnings) :
          warnings[w] \in Glob.cargo_toml /\ ~Files[warnings[w]].readable
    /\ kernel.exists
    /\ (~kernel.dump_ok \/ MalformedLines[kernel.stdout] # {})

\* the position of the first suggestion of a category in a sequence
FirstOfCategory(s, c) ==
    CHOOSE k \in 1..Len(s) :
        s[k].category = c /\ \A j \in 1..(k - 1) : s[j].category # c

\* C12: the printed groups partition the suggestion sequence by category: one
\* group per category that occurs, the groups in the order of each category's
\* first suggestion, and each group the suggestions of its category in the
\* order of the sequence.
C12_GroupedByCategory ==
    output.printed =>
        LET s == report.suggestions
            g == output.by_category
        IN  /\ {g[i].category : i \in 1..Len(g)} = {s[k].category : k \in 1..Len(s)}
            /\ \A i, j \in 1..Len(g) : i # j => g[i].category # g[j].category
            /\ \A i, j \in 1..Len(g) :
                  i < j => FirstOfCategory(s, g[i].category) < FirstOfCategory(s, g[j].category)
            /\ \A i \in 1..Len(g) :
                  g[i].suggestions = SelectSeq(s, LAMBDA x : x.category = g[i].category)

\* a report with three groups, one of them with several suggestions, was printed
C12_Witness ==
    /\ output.printed
    /\ Len(output.by_category) = 3
    /\ \E i \in 1..3 : Len(output.by_category[i].suggestions) >= 2
    /\ \E i \in 1..3 : Len(output.by_category[i].suggestions) = 1

\* the advisories of the quality rules, in rule order, as character sequences
QualityAdvisoryText == <<
    \* TODO comment found
    <<"T", "O", "D", "O", " ", "c", "o", "m", "m", "e", "n", "t", " ", "f", "o", "u", "n", "d">>,
    \* FIXME comment found
    <<"F", "I", "X", "M", "E", " ", "c", "o", "m", "m", "e", "n", "t", " ", "f", "o", "u",
         "n", "d">>,
    \* HACK comment found
    <<"H", "A", "C", "K", " ", "c", "o", "m", "m", "e", "n", "t", " ", "f", "o", "u", "n", "d">>,
    \* Empty if statement
    <<"E", "m", "p", "t", "y", " ", "i", "f", " ", "s", "t", "a", "t", "e", "m", "e", "n", "t">>,
    \* Single-line else block could be simplified
    <<"S", "i", "n", "g", "l", "e", "-", "l", "i", "n", "e", " ", "e", "l", "s", "e", " ",
         "b", "l", "o", "c", "k", " ", "c", "o", "u", "l", "d", " ", "b", "e", " ", "s", "i",
         "m", "p", "l", "i", "f", "i", "e", "d">>,
    \* Magic number detected - consider named constant
    <<"M", "a", "g", "i", "c", " ", "n", "u", "m", "b", "e", "r", " ", "d", "e", "t", "e",
         "c", "t", "e", "d", " ", "-", " ", "c", "o", "n", "s", "i", "d", "e", "r", " ", "n",
         "a", "m", "e", "d", " ", "c", "o", "n", "s", "t", "a", "n", "t">>
>>

\* the quality advisories that contain a marker
QualityAdvisoriesWith(marker) ==
    {QualityPatterns[k].suggestion :
        k \in {j \in 1..Len(QualityPatterns) : Contains(QualityAdvisoryText[j], marker)}}

TodoAdvisories == QualityAdvisoriesWith(marker_todo)

FixmeAdvisories == QualityAdvisoriesWith(marker_fixme)

\* the findings of a sequence whose advisory is one of a set
WithAdvisory(issues, advisories) ==
    Cardinality({i \in 1..Len(issues) : issues[i].suggestion \in advisories})

\* C13: the headline counts of the printed report: the total is the sum of the
\* lengths of the three finding sequences, the TODO count is the number of
\* quality findings whose advisory contains TODO, the FIXME count the number
\* whose advisory contains FIXME, and "other" the quality findings minus both.
C13_HeadlineCounts ==
    output.printed =>
        /\ output.total_issues = TotalFindings(report)
        /\ report.code_issues # <<>> =>
              LET todo  == WithAdvisory(report.code_issues, TodoAdvisories)
                  fixme == WithAdvisory(report.code_issues, FixmeAdvisories)
              IN  /\ Len(output.quality) = 1
                  /\ output.quality[1].todo_count = todo
                  /\ output.quality[1].fixme_count = fixme
                  /\ output.quality[1].other = Len(report.code_issues) - todo - fixme

\* the file a finding names
FileOf(path) == CHOOSE f \in FileIds : Files[f].path = path

\* the rule of a category that gives an advisory
RuleOf(category, advisory) ==
    CHOOSE k \in 1..Len(Patterns[category]) : Patterns[category][k].suggestion = advisory

\* the source analysis of this run is over
QualityDone ==
    /\ action \in {"analyze", "all"}
    /\ pc \in {"binary", "hotspots", "hotspots_loop", "rust", "rust_loop", "report",
                "completed", "done"}

\* the findings a step appends to a category
NewFindings(c) == Added(IssuesOf(report, c), IssuesOf(report', c))

\* C14: the line of a finding is the 1-based position of its line in the
\* file, and the rule of the finding matches that line stripped of surrounding
\* whitespace: every finding a step appends names the file and the line
\* being classified, counted from 1, and a rule that matches the stripped
\* line; the file whose 42nd line is "    gets(buffer);" has, when it is left,
\* one security finding, with line 42, the advisory of gets() and severity
\* high.
C14_LineNumber ==
    [][/\ report' # report =>
              \A c \in Categories : \A i \in 1..Len(NewFindings(c)) :
                  LET x     == NewFindings(c)[i]
                      lines == FileLines[files[file_idx]]
                  IN  /\ pc = "quality_loop" /\ line_num >= 1
                      /\ x.file = Files[files[file_idx]].path
                      /\ x.line = line_num
                      /\ x.issue = Strip(lines[x.line])
                      /\ SearchResult[c][Strip(lines[x.line])][RuleOf(c, x.suggestion)]
       /\ (/\ pc = "quality_loop"
           /\ files[file_idx] = "kernel_drivers_tty_c"
           /\ line_num >= 1
           /\ (pc' # "quality_loop" \/ file_idx' # file_idx)) =>
              /\ line_num = 42
              /\ FileLines["kernel_drivers_tty_c"][42] = heap_c_2
              /\ heap_c_2[1] = " " /\ heap_c_2[5] = "g"
              /\ \E i \in 1..Len(report'.security_issues) :
                    LET x == report'.security_issues[i]
                    IN  /\ x.file = "kernel/drivers/tty.c"
                        /\ x.line = 42
                        /\ x.suggestion = "gets() is unsafe, use fgets()"
                        /\ x.severity = "high"
              /\ \A i \in 1..Len(report'.security_issues) :
                    report'.security_issues[i].file = "kernel/drivers/tty.c"
                        => report'.security_issues[i].line = 42]_vars

\* the file with gets() on line 42 was classified and the report printed
C14_Witness ==
    /\ output.printed
    /\ \E i \in 1..Len(report.security_issues) :
          /\ report.security_issues[i].file = "kernel/drivers/tty.c"
          /\ report.security_issues[i].line = 42
          /\ Len(report.security_issues[i].issue) = Len(FileLines["kernel_drivers_tty_c"][42]) - 4

\* C15 as claimed: without a kernel, and with a kernel whose dump command
\* failed, analyze_binary_size leaves the metrics and the suggestions
\* unchanged and returns.
C15_NoArtifactNoChange ==
    [][(pc = "binary" /\ (~kernel.exists \/ ~kernel.dump_ok)) =>
          /\ report'.metrics = report.metrics
          /\ report'.suggestions = report.suggestions
          /\ pc' # "binary"]_vars

\* C15: without a kernel analyze_binary_size leaves the metrics and the
\* suggestions unchanged; with a kernel whose dump command failed it records
\* kernel_size in the metrics and appends the kernel size suggestion when the
\* kernel is larger than 10 MiB, and no section suggestion; it returns in
\* both cases.
C15_MissingArtifact ==
    [][pc = "binary" =>
          /\ pc' # "binary"
          /\ ~kernel.exists => report' = report
          /\ (kernel.exists /\ ~kernel.dump_ok) =>
                LET new == Added(report.suggestions, report'.suggestions)
                IN  /\ report'.metrics
                          = {m \in report.metrics : m[1] # "kernel_size"}
                                \cup {<<"kernel_size", kernel.size>>}
                    /\ IsPrefix(report.suggestions, report'.suggestions)
                    /\ SectionSuggestions(new) = <<>>
                    /\ Len(new) = IF kernel.size > 10485760 THEN 1 ELSE 0
                    /\ \A i \in 1..Len(new) : IsKernelSizeSuggestion(new[i])]_vars

\* a kernel above 10 MiB whose dump command failed was analyzed
C15_Witness ==
    /\ pc = "hotspots"
    /\ kernel.exists /\ ~kernel.dump_ok /\ kernel.size > 10485760
    /\ report.metrics = {<<"kernel_size", kernel.size>>}
    /\ Len(report.suggestions) = 1
    /\ IsKernelSizeSuggestion(report.suggestions[1])

\* the traversal of the source analysis: the kernel sources in directory
\* order, then the bootloader sources in directory order
Traversal ==
    SelectSeq(tree, LAMBDA f : f \in Glob.kernel_sources)
        \o SelectSeq(tree, LAMBDA f : f \in Glob.bootloader_sources)

\* where a finding was discovered: <<file position, line, rule>>
Discovery(c, x) ==
    <<CHOOSE k \in 1..Len(Traversal) : Files[Traversal[k]].path = x.file,
      x.line,
      RuleOf(c, x.suggestion)>>

Earlier(a, b) ==
    \/ a[1] < b[1]
    \/ a[1] = b[1] /\ a[2] < b[2]
    \/ a[1] = b[1] /\ a[2] = b[2] /\ a[3] < b[3]

\* C16: each finding sequence is in discovery order: by file in traversal
\* order, then by line, then by rule in the order of the category's rule
\* list. Every finding a step appends is of the file and line being
\* classified, is later in this order than the last finding already in its
\* sequence, and the findings appended together are in rule order; a file is
\* opened only when the line before it in the traversal is finished.
C16_DiscoveryOrder ==
    [][/\ report' # report =>
              \A c \in Categories :
              LET old == IssuesOf(report, c)
                  new == NewFindings(c)
              IN  /\ new # <<>> => IsPrefix(old, IssuesOf(report', c))
                  /\ \A i \in 1..Len(new) :
                        /\ Discovery(c, new[i])[1] = file_idx
                        /\ Discovery(c, new[i])[2] = line_num
                        /\ Traversal[file_idx] = files[file_idx]
                  /\ (new # <<>> /\ old # <<>>) =>
                        Earlier(Discovery(c, old[Len(old)]), Discovery(c, new[1]))
                  /\ \A i \in 1..(Len(new) - 1) :
                        Earlier(Discovery(c, new[i]), Discovery(c, new[i + 1]))
       /\ (pc = "quality_loop" /\ pc' = "quality_loop") =>
              \/ file_idx' = file_idx /\ line_num' = line_num + 1
              \/ /\ file_idx' = file_idx + 1 /\ line_num' = 0
                 /\ (line_num = 0 \/ line_num = Len(FileLines[files[file_idx]]))]_vars

\* one sequence holds findings of two files, of two lines of one file and of
\* two rules on one line
C16_Witness ==
    /\ pc = "done"
    /\ \E c \in Categories :
          LET q == IssuesOf(report, c)
          IN  /\ \E i, j \in 1..Len(q) : i < j /\ q[i].file # q[j].file
              /\ \E i, j \in 1..Len(q) :
                    i < j /\ q[i].file = q[j].file /\ q[i].line < q[j].line
              /\ \E i, j \in 1..Len(q) :
                    /\ i < j /\ q[i].file = q[j].file /\ q[i].line = q[j].line
                    /\ q[i].suggestion # q[j].suggestion

\* the line of the file that a finding names, as it is in the file
SourceLine(x) == FileLines[FileOf(x.file)][x.line]

\* text is line without the whitespace that surrounds it
IsLineStripped(text, line) ==
    /\ text # <<>> => text[1] \notin Space /\ text[Len(text)] \notin Space
    /\ \E a \in 0..Len(line) :
          /\ a + Len(text) <= Len(line)
          /\ SubSeq(line, a + 1, a + Len(text)) = text
          /\ \A i \in 1..Len(line) :
                (i <= a \/ i > a + Len(text)) => line[i] \in Space

\* C17 as claimed: the text stored in a finding is its source line verbatim,
\* leading and trailing whitespace included.
C17_RawTextVerbatim ==
    \A c \in Categories : \A i \in 1..Len(IssuesOf(report, c)) :
        IssuesOf(report, c)[i].issue = SourceLine(IssuesOf(report, c)[i])

\* C17: the text stored in a finding is its source line without the leading
\* and trailing whitespace of the line, and otherwise character for
\* character the line: so it is for every finding a step appends.
C17_RawTextStripped ==
    [][report' # report =>
          \A c \in Categories : \A i \in 1..Len(NewFindings(c)) :
              /\ IsPrefix(IssuesOf(report, c), IssuesOf(report', c))
              /\ IsLineStripped(NewFindings(c)[i].issue, SourceLine(NewFindings(c)[i]))]_vars

\* findings of an indented line and of a line that ends in whitespace
C17_Witness ==
    /\ \E c \in Categories : \E i \in 1..Len(IssuesOf(report, c)) :
          LET x == IssuesOf(report, c)[i]
          IN  SourceLine(x)[1] \in Space /\ Len(x.issue) < Len(SourceLine(x))
    /\ \E c \in Categories : \E i \in 1..Len(IssuesOf(report, c)) :
          LET x == IssuesOf(report, c)[i]
          IN  SourceLine(x)[Len(SourceLine(x))] \in Space /\ Len(x.issue) < Len(SourceLine(x))

\* C18: generate_optimization_report changes nothing of the report: the three
\* finding sequences, the suggestions and the metrics are after it what they
\* were before, complete, while the display holds the first 10 performance
\* findings and the first 5 suggestions of each category.
C18_ReportReadOnly ==
    [][pc = "report" =>
          /\ report'.performance_issues = report.performance_issues
          /\ report'.security_issues = report.security_issues
          /\ report'.code_issues = report.code_issues
          /\ report'.suggestions = report.suggestions
          /\ report'.metrics = report.metrics
          /\ output'.printed
          /\ IsPrefix(output'.performance_shown, report'.performance_issues)
          /\ Len(output'.performance_shown)
                = (IF Len(report'.performance_issues) < 10
                   THEN Len(report'.performance_issues) ELSE 10)
          /\ \A i \in 1..Len(output'.suggestions_shown) :
                LET all == SelectSeq(report'.suggestions,
                                     LAMBDA x : x.category = output'.by_category[i].category)
                IN  /\ IsPrefix(output'.suggestions_shown[i], all)
                    /\ Len(output'.suggestions_shown[i])
                          = (IF Len(all) < 5 THEN Len(all) ELSE 5)]_vars

\* a report with more than 10 performance findings and more than 5
\* suggestions of one category was printed and is still complete
C18_Witness ==
    /\ pc = "done"
    /\ output.printed
    /\ Len(report.performance_issues) > 10
    /\ Len(output.performance_shown) = 10
    /\ \E i \in 1..Len(output.by_category) :
          /\ Len(output.by_category[i].suggestions) > 5
          /\ Len(output.suggestions_shown[i]) = 5
          /\ Len(SelectSeq(report.suggestions,
                           LAMBDA x : x.category = output.by_category[i].category)) > 5

\* C19 as claimed: in a printed report the TODO count plus the FIXME count is
\* at most the number of quality findings, so that "other" is not negative.
C19_CountsWithinQuality ==
    (output.printed /\ output.quality # <<>>) =>
        /\ output.quality[1].todo_count + output.quality[1].fixme_count
              <= Len(report.code_issues)
        /\ output.quality[1].other >= 0

\* C20: no finding sequence holds two findings with the same file, line and
\* advisory: a finding a step appends differs in one of them from every
\* finding already in its sequence and from the others appended with it; and
\* the advisories of the rules of a category differ pairwise.
C20_NoDuplicateFindings ==
    [][/\ (report' # report /\ scans' = scans) =>
              \A c \in Categories :
                  LET all == IssuesOf(report', c)
                  IN  \A j \in (Len(IssuesOf(report, c)) + 1)..Len(all) :
                        /\ IsPrefix(IssuesOf(report, c), all)
                        /\ \A i \in 1..(j - 1) :
                              ~(/\ all[i].file = all[j].file
                                /\ all[i].line = all[j].line
                                /\ all[i].suggestion = all[j].suggestion)
       /\ \A c \in Categories : \A k, l \in 1..Len(Patterns[c]) :
              k # l => Patterns[c][k].suggestion # Patterns[c][l].suggestion]_vars

\* a run ended with findings of one rule on several lines of a file and of
\* several rules on one line
C20_Witness ==
    /\ pc = "done"
    /\ \E c \in Categories :
          LET q == IssuesOf(report, c)
          IN  /\ \E i, j \in 1..Len(q) :
                    /\ i < j /\ q[i].file = q[j].file /\ q[i].line # q[j].line
                    /\ q[i].suggestion = q[j].suggestion
              /\ \E i, j \in 1..Len(q) :
                    /\ i < j /\ q[i].file = q[j].file /\ q[i].line = q[j].line
                    /\ q[i].suggestion # q[j].suggestion

\* the suites of a list that hold a failed test
FailedSuites(results) == {i \in 1..Len(results) : failed_count(results[i]) > 0}

\* C21: generate_report completes and returns a boolean for every list of
\* collected suites, a list without any test included, and the value is True
\* exactly when no suite of the list has a failed test: every call returns,
\* with that value.
C21_ReportReturns ==
    [][test_pc = "report" =>
          /\ test_pc' = "returned"
          /\ success' \in BOOLEAN
          /\ success' = (FailedSuites(test_results) = {})]_vars

\* C22: run_all_tests returns True, and the process exits with 0, only if each
\* of the six suite functions returned and its suite has no failed test; with
\* a suite function that raised, "all tests passed" is never printed.
C22_SuccessOnlyIfAllRan ==
    /\ (/\ suite_arg = "all"
        /\ \/ test_pc = "returned" /\ success
           \/ test_pc = "exited" /\ exit_code = 0)
            => /\ errors = <<>>
               /\ Len(test_results) = Len(test_functions)
               /\ FailedSuites(test_results) = {}
    /\ (suite_arg = "all" /\ errors # <<>>) => summary.banner # "ALL TESTS PASSED"

====
